---- MODULE Spec2Model ----
(***************************************************************************)
(* Model of the cover generator: the session state machine of App.tsx,     *)
(* the layout service (generateLayoutConfig), the video service            *)
(* (generateVideo with its polling loop) and the sticker controls.         *)
(*                                                                         *)
(* Asynchronous requests are modelled as records "in flight": a handler    *)
(* that awaits is split at its await points, and the continuation runs in  *)
(* a later step with the values its closure captured.                      *)
(***************************************************************************)
EXTENDS Bags, FiniteSets, Integers, Sequences, TLC

\* ---------------------------------------------------------------- bounds
MaxLayoutReqs == 2      \* generateLayoutConfig calls in flight
MaxVideoReqs == 2       \* generateVideo calls in flight
MaxAttempts == 7        \* the poll counter saturates here (6 is the last value the code tests)
MaxStickers == 2        \* stickers on the canvas
MaxPendingReads == 1    \* FileReader loads in flight
MaxClock == 2           \* values of Date.now()
MaxImages == 1          \* distinct image files the user has at hand
MaxLoads == 2           \* image loads of the compositor in flight

\* ------------------------------------------------------------- constants
AppStates == {"IDLE", "UPLOADING", "CROPPING", "ANALYZING", "PREVIEW",
              "GENERATING_VIDEO", "COMPLETED", "ERROR"}

AspectRatios == {"16:9", "9:16", "1:1", "3:4"}

\* Two of the eight FILTERS of App.tsx (value strings).
FilterInputs == {"none", "grayscale(1) contrast(1.2)"}

\* What the user can type in the title box.
ThemeInputs == {"", "OOTD"}

STICKER_PRESETS == {"NEW"}

\* Status messages (the Chinese texts of the source, transliterated to ASCII).
MsgLayoutFailed == "Cannot generate layout"
MsgVideoFailed == "Video generation failed, please retry."
MsgVeoInit == "Initializing Veo model..."
MsgVeoGenerating == "Generating animated cover..."
MsgVeoAnalyzing == "Analyzing layout..."
MsgVeoFrames == "Compositing video frames..."
MsgVeoAlmost == "Almost done..."
MsgVeoDownloaded == "Download complete"

\* ------------------------------------------------- error messages (words)
\* An error message is a sequence of words; String.includes is the
\* contiguous-subsequence test.  NoMessage is an error without a message.
NoMessage == <<>>

NeedleNotFound == <<"Requested", "entity", "was", "not", "found">>
NeedleKeyInvalid == <<"API", "key", "not", "valid">>
Needle403 == <<"403">>

MsgApiKeyRequired == <<"API", "Key", "required.", "Please", "select", "a", "key.">>
MsgKeyValidationFailed == <<"API", "Key", "validation", "failed.">>
MsgNoVideoUri == <<"No", "video", "URI", "returned", "from", "Veo.">>
MsgDownloadFailed == <<"Failed", "to", "download", "video:">>
MsgDialogClosed == <<"dialog", "closed">>

\* Messages the remote service (or the network) can fail with.
GenericErrors == { NoMessage,
                   <<"Failed", "to", "fetch">>,
                   <<"500", "Internal", "error">> }
AuthErrors == { <<"404", "Requested", "entity", "was", "not", "found", "for", "key">>,
                <<"400", "API", "key", "not", "valid">>,
                <<"got", "status:", "403", "Forbidden">> }
ServiceErrors == GenericErrors \cup AuthErrors

includes(msg, needle) ==
  \E i \in 0..(Len(msg) - Len(needle)) :
     \A j \in 1..Len(needle) : msg[i + j] = needle[j]

\* error.message && (includes(..) || includes(..) || includes(..))
isApiKeyError(msg) ==
  /\ msg # NoMessage
  /\ \/ includes(msg, NeedleNotFound)
     \/ includes(msg, NeedleKeyInvalid)
     \/ includes(msg, Needle403)

\* error.message && error.message.includes("Requested entity was not found")
isEntityNotFound(msg) ==
  /\ msg # NoMessage
  /\ includes(msg, NeedleNotFound)

\* ---------------------------------------------------------- layout service
FONT_DEFAULT == "\"Microsoft YaHei\", sans-serif"

fontFamilyOf(fontStyle) ==
  CASE fontStyle = "serif" -> "\"Noto Serif SC\", serif"
    [] fontStyle = "handwritten" -> "\"Ma Shan Zheng\", cursive"
    [] fontStyle = "bold" -> "\"ZCOOL QingKe HuangYou\", sans-serif"
    [] fontStyle = "modern" -> "\"Noto Sans SC\", sans-serif"
    [] OTHER -> FONT_DEFAULT

\* A JSON answer of the model: the required fields of the response schema;
\* titleBackgroundColor "" stands for an absent (or null) field.
ServiceJson ==
  { [subtitle |-> "subtitle A", textColor |-> "#FFFFFF", shadowColor |-> "#000000",
     position |-> "top", fontStyle |-> "serif", titleBackgroundColor |-> "",
     veoPrompt |-> "Slow zoom"],
    [subtitle |-> "subtitle B", textColor |-> "#FF2442", shadowColor |-> "#333333",
     position |-> "split", fontStyle |-> "modern", titleBackgroundColor |-> "#FFD700",
     veoPrompt |-> "Film flicker"] }

FallbackConfig ==
  [subtitle |-> "BaoKuanFengMian", textColor |-> "#FFFFFF", shadowColor |-> "#000000",
   position |-> "bottom", fontStyle |-> "bold",
   veoPrompt |-> "Cinematic slow motion, keep text static.",
   fontFamily |-> FONT_DEFAULT]

\* What the remote calls of one generateLayoutConfig invocation do:
\*   hasKey   : "yes" | "no" | "reject"   (aistudio.hasSelectedApiKey)
\*   select   : "ok" | "reject"           (aistudio.openSelectKey in ensureApiKey)
\*   reselect : "ok" | "reject"           (aistudio.openSelectKey in the catch block)
\*   content  : [ok |-> TRUE, json |-> j] | [ok |-> FALSE, message |-> m]
LayoutWorlds ==
  [hasKey : {"yes", "no", "reject"}, select : {"ok", "reject"},
   reselect : {"ok", "reject"},
   content : [ok : {TRUE}, json : ServiceJson]
               \cup [ok : {FALSE}, message : ServiceErrors]]

Returned(v) == [kind |-> "return", value |-> v]
Thrown(m) == [kind |-> "throw", message |-> m]

\* ensureApiKey: TRUE when it resolves, FALSE when it rejects.
ensureApiKey(studio, w) ==
  IF ~studio THEN TRUE
  ELSE IF w.hasKey = "reject" THEN FALSE
  ELSE IF w.hasKey = "no" THEN w.select = "ok"
  ELSE TRUE

\* layoutCatch with the error rethrown where the code falls back.
layoutCatch_rethrows(studio, w, msg) ==
  IF isApiKeyError(msg) /\ studio
    THEN IF w.reselect = "ok" THEN Thrown(MsgApiKeyRequired)
                            ELSE Thrown(MsgDialogClosed)
    ELSE Thrown(msg)

\* layoutCatch without the check for API key errors.
layoutCatch_alwaysFallback(studio, w, msg) == Returned(FallbackConfig)

\* The catch block of generateLayoutConfig.
layoutCatch(studio, w, msg) ==
  IF isApiKeyError(msg) /\ studio
    THEN IF w.reselect = "ok" THEN Thrown(MsgApiKeyRequired)
                            ELSE Thrown(MsgDialogClosed)
    ELSE Returned(FallbackConfig)

\* generateLayoutConfig: the settled value of the returned promise.
generateLayoutConfig(studio, w) ==
  IF ~ensureApiKey(studio, w) THEN Thrown(MsgDialogClosed)
  ELSE IF w.content.ok
    THEN Returned([subtitle |-> w.content.json.subtitle,
                   textColor |-> w.content.json.textColor,
                   shadowColor |-> w.content.json.shadowColor,
                   position |-> w.content.json.position,
                   fontStyle |-> w.content.json.fontStyle,
                   titleBackgroundColor |-> w.content.json.titleBackgroundColor,
                   veoPrompt |-> w.content.json.veoPrompt,
                   fontFamily |-> fontFamilyOf(w.content.json.fontStyle)])
    ELSE layoutCatch(studio, w, w.content.message)

\* ------------------------------------------------------------------ state
VARIABLES
  appState,       \* AppState
  rawImage,       \* 0 is '', k > 0 is the data URL of image file k
  croppedImage,   \* what handleSave exported: the crop of image img at ratio
                  \* (source rectangle, output canvas size); EmptyImage is ''
  theme,          \* the title text
  stickers,       \* sequence of Sticker records
  activeFilter,   \* CSS filter string
  aspectRatio,    \* AspectRatio
  layoutConfig,   \* NullLayout or a LayoutConfig record
  statusMessage,
  videoUrl,       \* "" or an object URL
  activeTab,      \* "template" | "text"
  layoutReqs,     \* bag of handleGenerateLayout invocations awaiting generateLayoutConfig,
                  \* each with the croppedImage, theme and activeFilter of its closure
  videoReqs,      \* bag of handleGenerateVideo invocations awaiting generateVideo
  pendingReads,   \* bag of image files a FileReader is still loading
  cropLoaded,     \* imageDimensions.loaded of the mounted ImageCropper
  cropper,        \* scale, position, isDragging, dragStart and imageDimensions of
                  \* the mounted ImageCropper
  titleDragRef,   \* dragRef.current of the mounted LayoutEditorOverlay
  stickerDragRef, \* dragRef.current of the mounted StickerOverlay
  uploadError,    \* error of the mounted ImageUploader ("" is null)
  canvas,         \* the mounted CoverCanvas: the dependencies of its last effect,
                  \* the draws on its <canvas> since it was last cleared, the
                  \* images still loading and what the last export returned
  aistudio,       \* TRUE iff window.aistudio exists
  now,            \* Date.now()
  lastEvent       \* observation: what the last step was, or "off"

vars == <<appState, rawImage, croppedImage, theme, stickers, activeFilter,
          aspectRatio, layoutConfig, statusMessage, videoUrl, activeTab,
          layoutReqs, videoReqs, pendingReads, cropLoaded, cropper,
          titleDragRef, stickerDragRef, uploadError, canvas, aistudio, now,
          lastEvent>>

Images == 1..MaxImages
EmptyImage == [img |-> 0, ratio |-> "none"]
NullLayout == [isNull |-> TRUE]

One(r) == SetToBag({r})

\* dragRef.current = null
NoDrag == [active |-> FALSE]

\* The state of a newly mounted ImageCropper: useState(1), useState({x: 0, y: 0}),
\* useState(false), useState({x: 0, y: 0}), useState({width: 0, height: 0,
\* loaded: false}).  The scale is held in hundredths (100 is scale 1), pixels
\* are integers, and imageDimensions is the image whose natural size is held
\* (0 for none).
IdentityCrop ==
  [scale |-> 100, position |-> <<0, 0>>, isDragging |-> FALSE, dragStart |-> <<0, 0>>,
   imageDimensions |-> 0]

\* A newly mounted CoverCanvas whose effect has not run: a blank <canvas>.
NoCanvas ==
  [deps |-> [none |-> TRUE], frame |-> <<>>, filter |-> "none", loading |-> EmptyBag,
   exported |-> [none |-> TRUE]]

\* The observation of a step; a specification that starts with lastEvent = "off"
\* records nothing.
Note(label) == IF lastEvent = "off" THEN "off" ELSE label

\* The session data reset() clears.
sessionVars == <<rawImage, croppedImage, theme, stickers, activeFilter,
                 layoutConfig, videoUrl>>

\* ------------------------------------------------------------ what is shown
\* The cropper is a full-screen modal: nothing below it can be clicked.
CropperOpen == appState = "CROPPING"

\* "Step 2" panel (tabs, title input, filters, generate button).
PanelShown == appState # "IDLE" /\ ~CropperOpen

TemplateTabShown == PanelShown /\ activeTab = "template"

\* <CoverCanvas> is rendered, so canvasRef.current is set.
CanvasMounted ==
  /\ ~(appState = "IDLE" \/ (layoutConfig = NullLayout /\ croppedImage = EmptyImage))
  /\ ~(videoUrl # "" /\ appState = "COMPLETED")

\* OverlayShown with the sticker layer kept over a completed video.
OverlayShown_overVideo ==
  /\ appState \in {"PREVIEW", "COMPLETED"}
  /\ ~(layoutConfig = NullLayout /\ croppedImage = EmptyImage)

\* <StickerOverlay> is rendered.
OverlayShown ==
  /\ appState = "PREVIEW"
  /\ ~(layoutConfig = NullLayout /\ croppedImage = EmptyImage)

\* <LayoutEditorOverlay> is rendered.
LayoutOverlayShown == OverlayShown /\ layoutConfig # NullLayout

\* Rendered without the cropper's reset effect.
Rendered_keepsTransform ==
  /\ cropper' = IF ~(CropperOpen /\ CropperOpen') THEN IdentityCrop ELSE cropper
  /\ titleDragRef' = IF LayoutOverlayShown /\ LayoutOverlayShown'
                       THEN titleDragRef ELSE NoDrag
  /\ stickerDragRef' = IF OverlayShown /\ OverlayShown'
                         THEN stickerDragRef ELSE NoDrag
  /\ uploadError' = IF appState = "IDLE" /\ appState' = "IDLE" THEN uploadError ELSE ""
  /\ canvas' = IF CanvasMounted /\ CanvasMounted' THEN canvas ELSE NoCanvas

\* What the render after a step does to the state the components hold: a
\* component that stays mounted keeps its state and refs, one that is
\* unmounted loses them (a later mount starts from the initial values), and
\* the cropper's effect on [imageUrl, aspectRatio] resets position and scale.
Rendered ==
  /\ cropper' = IF ~(CropperOpen /\ CropperOpen') THEN IdentityCrop
                ELSE IF <<rawImage', aspectRatio'>> # <<rawImage, aspectRatio>>
                  THEN [cropper EXCEPT !.position = <<0, 0>>, !.scale = 100]
                  ELSE cropper
  /\ titleDragRef' = IF LayoutOverlayShown /\ LayoutOverlayShown'
                       THEN titleDragRef ELSE NoDrag
  /\ stickerDragRef' = IF OverlayShown /\ OverlayShown'
                         THEN stickerDragRef ELSE NoDrag
  /\ uploadError' = IF appState = "IDLE" /\ appState' = "IDLE" THEN uploadError ELSE ""
  /\ canvas' = IF CanvasMounted /\ CanvasMounted' THEN canvas ELSE NoCanvas

Init ==
  /\ appState = "IDLE"
  /\ rawImage = 0
  /\ croppedImage = EmptyImage
  /\ theme = ""
  /\ stickers = <<>>
  /\ activeFilter = "none"
  /\ aspectRatio = "3:4"
  /\ layoutConfig = NullLayout
  /\ statusMessage = ""
  /\ videoUrl = ""
  /\ activeTab = "template"
  /\ layoutReqs = EmptyBag
  /\ videoReqs = EmptyBag
  /\ pendingReads = EmptyBag
  /\ cropLoaded = FALSE
  /\ cropper = IdentityCrop
  /\ titleDragRef = NoDrag
  /\ stickerDragRef = NoDrag
  /\ uploadError = ""
  /\ canvas = NoCanvas
  /\ aistudio \in BOOLEAN
  /\ now = 1
  /\ lastEvent = "off"

\* ------------------------------------------------------- cropper arithmetic
\* The numbers of handleSave are held as exact fractions <<numerator,
\* denominator>> in lowest terms with a positive denominator.
RECURSIVE Gcd(_, _)
Gcd(a, b) == IF b = 0 THEN a ELSE Gcd(b, a % b)

Abs(n) == IF n < 0 THEN 0 - n ELSE n

Min(a, b) == IF a < b THEN a ELSE b
Max(a, b) == IF a > b THEN a ELSE b

Q(n, d) ==
  LET sign == IF d < 0 THEN 0 - 1 ELSE 1
      g == Gcd(Abs(n), Abs(d))
  IN <<(sign * n) \div g, (sign * d) \div g>>

QInt(n) == <<n, 1>>
QAdd(a, b) == Q(a[1] * b[2] + b[1] * a[2], a[2] * b[2])
QSub(a, b) == Q(a[1] * b[2] - b[1] * a[2], a[2] * b[2])
QMul(a, b) == Q(a[1] * b[1], a[2] * b[2])
QDiv(a, b) == Q(a[1] * b[2], a[2] * b[1])
QLe(a, b) == a[1] * b[2] <= b[1] * a[2]

\* targetRatio as width / height.
RATIO_MULTIPLIERS(ratio) ==
  CASE ratio = "3:4" -> <<3, 4>>
    [] ratio = "1:1" -> <<1, 1>>
    [] ratio = "9:16" -> <<9, 16>>
    [] ratio = "16:9" -> <<16, 9>>

\* The compositor canvas of a ratio.
RATIO_CONFIG(ratio) ==
  CASE ratio = "3:4" -> [w |-> 750, h |-> 1000]
    [] ratio = "1:1" -> [w |-> 1080, h |-> 1080]
    [] ratio = "9:16" -> [w |-> 720, h |-> 1280]
    [] ratio = "16:9" -> [w |-> 1280, h |-> 720]

\* img.naturalWidth and img.naturalHeight of the uploaded images.
NaturalSize(img) ==
  IF img % 2 = 1 THEN [width |-> 2000, height |-> 1000]
                 ELSE [width |-> 600, height |-> 800]

\* container.getBoundingClientRect() of the crop window: the CSS gives it the
\* target ratio (here at a height of 400 px, a width of 400 px for 16:9).
ContainerRect(ratio) ==
  CASE ratio = "3:4" -> [width |-> 300, height |-> 400]
    [] ratio = "1:1" -> [width |-> 400, height |-> 400]
    [] ratio = "9:16" -> [width |-> 225, height |-> 400]
    [] ratio = "16:9" -> [width |-> 400, height |-> 225]

\* renderedSize with the image fitted inside the window (contain).
renderedSize_contain(nw, nh, cw, ch) ==
  IF nw * ch > cw * nh
    THEN [rw |-> QInt(cw), rh |-> Q(cw * nh, nw)]
    ELSE [rw |-> Q(ch * nw, nh), rh |-> QInt(ch)]

\* handleSave step 2: the size of the <img> before the transform (cover).
renderedSize(nw, nh, cw, ch) ==
  IF nw * ch > cw * nh
    THEN [rw |-> Q(ch * nw, nh), rh |-> QInt(ch)]
    ELSE [rw |-> QInt(cw), rh |-> Q(cw * nh, nw)]

\* handleSave step 3: a point of the crop window in source pixels.
mapDomToSource(crop, nw, nh, cw, ch, dx, dy) ==
  LET vx == QSub(QInt(dx), QAdd(Q(cw, 2), QInt(crop.position[1])))
      vy == QSub(QInt(dy), QAdd(Q(ch, 2), QInt(crop.position[2])))
      vx_unscaled == QDiv(vx, Q(crop.scale, 100))
      vy_unscaled == QDiv(vy, Q(crop.scale, 100))
      scaleX == QDiv(QInt(nw), renderedSize(nw, nh, cw, ch).rw)
  IN [x |-> QAdd(Q(nw, 2), QMul(vx_unscaled, scaleX)),
      y |-> QAdd(Q(nh, 2), QMul(vy_unscaled, scaleX))]

\* outputSize with the longer edge at 1080.
outputSize_longEdge(ratio) ==
  LET r == RATIO_MULTIPLIERS(ratio)
  IN IF r[1] >= r[2]
       THEN [width |-> 1080, height |-> (1080 * r[2]) \div r[1]]
       ELSE [width |-> (1080 * r[1]) \div r[2], height |-> 1080]

\* handleSave step 4: canvas.width = 1080, canvas.height = 1080 / targetRatio;
\* the canvas stores the integer part.
outputSize(ratio) ==
  LET outputHeight == QDiv(QInt(1080), RATIO_MULTIPLIERS(ratio))
  IN [width |-> 1080, height |-> outputHeight[1] \div outputHeight[2]]

\* ImageCropper.handleSave: what is exported for the transform crop, the image
\* img drawn from its <img> element and the target ratio.
handleSave(crop, img, ratio) ==
  LET nw == NaturalSize(crop.imageDimensions).width
      nh == NaturalSize(crop.imageDimensions).height
      cw == ContainerRect(ratio).width
      ch == ContainerRect(ratio).height
      topLeft == mapDomToSource(crop, nw, nh, cw, ch, 0, 0)
      bottomRight == mapDomToSource(crop, nw, nh, cw, ch, cw, ch)
  IN [img |-> img, ratio |-> ratio,
      sx |-> topLeft.x, sy |-> topLeft.y,
      sw |-> QSub(bottomRight.x, topLeft.x), sh |-> QSub(bottomRight.y, topLeft.y),
      width |-> outputSize(ratio).width, height |-> outputSize(ratio).height]

\* ------------------------------------------------------- upload and crop
\* String.prototype.startsWith, on strings held as sequences of characters.
startsWith(s, prefix) ==
  /\ Len(s) >= Len(prefix)
  /\ SubSeq(s, 1, Len(prefix)) = prefix

\* 'image/'
IMAGE_PREFIX == <<"i", "m", "a", "g", "e", "/">>

\* 10 * 1024 * 1024 bytes.
MAX_FILE_SIZE == 10485760

\* The inline errors of the uploader: "type" is the message asking for a valid
\* image file, "size" the one asking for an image within 10MB; "" is null.
ERROR_TYPE == "type"
ERROR_SIZE == "size"

\* handleFile without the size check.
handleFile_anySize(file) ==
  /\ lastEvent' = Note("handleFile")
  /\ appState = "IDLE"
  /\ IF ~startsWith(file.type, IMAGE_PREFIX)
       THEN uploadError' = ERROR_TYPE /\ UNCHANGED pendingReads
       ELSE /\ BagCardinality(pendingReads) < MaxPendingReads
            /\ uploadError' = ""
            /\ pendingReads' = pendingReads (+) One(file.img)
  /\ UNCHANGED <<appState, rawImage, croppedImage, theme, stickers, activeFilter,
                 aspectRatio, layoutConfig, statusMessage, videoUrl, activeTab,
                 layoutReqs, videoReqs, cropLoaded, cropper, titleDragRef,
                 stickerDragRef, canvas, aistudio, now>>

\* ImageUploader.handleFile; file is [type, size, img]: the mime type, the
\* size in bytes and the image the file holds.  A file that passes both checks
\* clears the error and starts a FileReader.
handleFile(file) ==
  /\ lastEvent' = Note("handleFile")
  /\ appState = "IDLE"
  /\ IF ~startsWith(file.type, IMAGE_PREFIX)
       THEN uploadError' = ERROR_TYPE /\ UNCHANGED pendingReads
       ELSE IF file.size > MAX_FILE_SIZE
         THEN uploadError' = ERROR_SIZE /\ UNCHANGED pendingReads
         ELSE /\ BagCardinality(pendingReads) < MaxPendingReads
              /\ uploadError' = ""
              /\ pendingReads' = pendingReads (+) One(file.img)
  /\ UNCHANGED <<appState, rawImage, croppedImage, theme, stickers, activeFilter,
                 aspectRatio, layoutConfig, statusMessage, videoUrl, activeTab,
                 layoutReqs, videoReqs, cropLoaded, cropper, titleDragRef,
                 stickerDragRef, canvas, aistudio, now>>

\* reader.onload -> onImageSelected -> handleImageSelected.
handleImageSelected(img) ==
  /\ lastEvent' = Note("handleImageSelected")
  /\ BagIn(img, pendingReads)
  /\ pendingReads' = pendingReads (-) One(img)
  /\ rawImage' = img
  /\ appState' = "CROPPING"
  /\ cropLoaded' = (CropperOpen /\ cropLoaded)
  /\ UNCHANGED <<croppedImage, theme, stickers, activeFilter, aspectRatio,
                 layoutConfig, statusMessage, videoUrl, activeTab, layoutReqs,
                 videoReqs, aistudio, now>>
  /\ Rendered

\* ImageCropper.onImageLoad: the <img> of the cropper has loaded.
onImageLoad ==
  /\ lastEvent' = Note("onImageLoad")
  /\ CropperOpen
  /\ rawImage # 0
  /\ ~cropLoaded \/ cropper.imageDimensions # rawImage
  /\ cropLoaded' = TRUE
  /\ cropper' = [cropper EXCEPT !.imageDimensions = rawImage]
  /\ UNCHANGED <<appState, rawImage, croppedImage, theme, stickers, activeFilter,
                 aspectRatio, layoutConfig, statusMessage, videoUrl, activeTab,
                 layoutReqs, videoReqs, pendingReads, titleDragRef, stickerDragRef,
                 uploadError, canvas, aistudio, now>>

\* ImageCropper.handleSave returning early: the image has not loaded, or
\* getContext('2d') gave null.
handleSaveReturns(hasContext) ==
  /\ lastEvent' = Note("handleSaveReturns")
  /\ CropperOpen
  /\ ~cropLoaded \/ ~hasContext
  /\ UNCHANGED <<appState, rawImage, croppedImage, theme, stickers, activeFilter,
                 aspectRatio, layoutConfig, statusMessage, videoUrl, activeTab,
                 layoutReqs, videoReqs, pendingReads, cropLoaded, cropper,
                 titleDragRef, stickerDragRef, uploadError, canvas, aistudio, now>>

\* ImageCropper.handleSave -> onConfirm -> handleCropConfirm.
handleCropConfirm ==
  /\ lastEvent' = Note("handleCropConfirm")
  /\ CropperOpen
  /\ cropLoaded
  /\ croppedImage' = handleSave(cropper, rawImage, aspectRatio)
  /\ appState' = "UPLOADING"
  /\ cropLoaded' = FALSE
  /\ UNCHANGED <<rawImage, theme, stickers, activeFilter, aspectRatio,
                 layoutConfig, statusMessage, videoUrl, activeTab, layoutReqs,
                 videoReqs, pendingReads, aistudio, now>>
  /\ Rendered

\* The cropper's onCancel.
onCancel ==
  /\ lastEvent' = Note("onCancel")
  /\ CropperOpen
  /\ appState' = IF rawImage # 0 THEN "UPLOADING" ELSE "IDLE"
  /\ cropLoaded' = FALSE
  /\ UNCHANGED <<rawImage, croppedImage, theme, stickers, activeFilter,
                 aspectRatio, layoutConfig, statusMessage, videoUrl, activeTab,
                 layoutReqs, videoReqs, pendingReads, aistudio, now>>
  /\ Rendered

\* "re-crop" link (shown when croppedImage is set) or a click on the thumbnail
\* (shown when not IDLE); a no-op without rawImage.
handleReCrop ==
  /\ lastEvent' = Note("handleReCrop")
  /\ ~CropperOpen
  /\ croppedImage # EmptyImage \/ appState # "IDLE"
  /\ rawImage # 0
  /\ appState' = "CROPPING"
  /\ cropLoaded' = FALSE
  /\ UNCHANGED <<rawImage, croppedImage, theme, stickers, activeFilter,
                 aspectRatio, layoutConfig, statusMessage, videoUrl, activeTab,
                 layoutReqs, videoReqs, pendingReads, aistudio, now>>
  /\ Rendered

\* An aspect-ratio button: setAspectRatio(ratio); setAppState(CROPPING).
selectAspectRatio(ratio) ==
  /\ lastEvent' = Note("selectAspectRatio")
  /\ appState # "IDLE"
  /\ ~CropperOpen
  /\ aspectRatio' = ratio
  /\ appState' = "CROPPING"
  /\ cropLoaded' = FALSE
  /\ UNCHANGED <<rawImage, croppedImage, theme, stickers, activeFilter,
                 layoutConfig, statusMessage, videoUrl, activeTab, layoutReqs,
                 videoReqs, pendingReads, aistudio, now>>
  /\ Rendered

\* What the cropper's pointer and slider handlers leave alone.
cropperFrame == <<appState, rawImage, croppedImage, theme, stickers, activeFilter,
                  aspectRatio, layoutConfig, statusMessage, videoUrl, activeTab,
                  layoutReqs, videoReqs, pendingReads, cropLoaded, titleDragRef,
                  stickerDragRef, uploadError, canvas, aistudio, now>>

\* The zoom slider (min 0.5, max 3, step 0.01): setScale(parseFloat(value)).
setScale(value) ==
  /\ lastEvent' = Note("setScale")
  /\ CropperOpen
  /\ value \in 50..300
  /\ value # cropper.scale
  /\ cropper' = [cropper EXCEPT !.scale = value]
  /\ UNCHANGED cropperFrame

\* ImageCropper.handlePointerDown; p is <<clientX, clientY>>.
cropperPointerDown(p) ==
  /\ lastEvent' = Note("cropperPointerDown")
  /\ CropperOpen
  /\ cropper' = [cropper EXCEPT !.isDragging = TRUE,
                                !.dragStart = <<p[1] - cropper.position[1],
                                                p[2] - cropper.position[2]>>]
  /\ UNCHANGED cropperFrame

\* cropperPointerMove with the pan kept within half the window.
cropperPointerMove_clamped(p) ==
  /\ lastEvent' = Note("cropperPointerMove")
  /\ CropperOpen
  /\ cropper.isDragging
  /\ cropper' = [cropper EXCEPT !.position =
                   <<Max(0 - 150, Min(150, p[1] - cropper.dragStart[1])),
                     Max(0 - 200, Min(200, p[2] - cropper.dragStart[2]))>>]
  /\ UNCHANGED cropperFrame

\* ImageCropper.handlePointerMove: returns unless isDragging.
cropperPointerMove(p) ==
  /\ lastEvent' = Note("cropperPointerMove")
  /\ CropperOpen
  /\ cropper.isDragging
  /\ cropper' = [cropper EXCEPT !.position = <<p[1] - cropper.dragStart[1],
                                               p[2] - cropper.dragStart[2]>>]
  /\ UNCHANGED cropperFrame

\* ImageCropper.handlePointerUp, also the window's onPointerLeave.
cropperPointerUp ==
  /\ lastEvent' = Note("cropperPointerUp")
  /\ CropperOpen
  /\ cropper.isDragging
  /\ cropper' = [cropper EXCEPT !.isDragging = FALSE]
  /\ UNCHANGED cropperFrame

\* ------------------------------------------------------- template panel
\* The title input: setTheme(e.target.value).
setTheme(t) ==
  /\ lastEvent' = Note("setTheme")
  /\ TemplateTabShown
  /\ t # theme
  /\ theme' = t
  /\ UNCHANGED <<appState, rawImage, croppedImage, stickers, activeFilter,
                 aspectRatio, layoutConfig, statusMessage, videoUrl, activeTab,
                 layoutReqs, videoReqs, pendingReads, cropLoaded, aistudio, now>>
  /\ Rendered

handleFilterChange(f) ==
  /\ lastEvent' = Note("handleFilterChange")
  /\ TemplateTabShown
  /\ f # activeFilter
  /\ activeFilter' = f
  /\ layoutConfig' = IF layoutConfig # NullLayout
                        THEN [layoutConfig EXCEPT !.filter = f]
                        ELSE layoutConfig
  /\ UNCHANGED <<appState, rawImage, croppedImage, theme, stickers, aspectRatio,
                 statusMessage, videoUrl, activeTab, layoutReqs, videoReqs,
                 pendingReads, cropLoaded, aistudio, now>>
  /\ Rendered

\* The two tab buttons, rendered only when there is a layoutConfig.
setActiveTab(tab) ==
  /\ lastEvent' = Note("setActiveTab")
  /\ PanelShown
  /\ layoutConfig # NullLayout
  /\ tab # activeTab
  /\ activeTab' = tab
  /\ UNCHANGED <<appState, rawImage, croppedImage, theme, stickers, activeFilter,
                 aspectRatio, layoutConfig, statusMessage, videoUrl, layoutReqs,
                 videoReqs, pendingReads, cropLoaded, aistudio, now>>
  /\ Rendered

\* ------------------------------------------------------ layout generation
\* handleGenerateLayout up to its await: generateLayoutConfig(croppedImage,
\* theme, filterName) is called; activeFilter is read again after the await.
StartLayoutRequest ==
  /\ theme # ""
  /\ BagCardinality(layoutReqs) < MaxLayoutReqs
  /\ appState' = "ANALYZING"
  /\ activeTab' = "template"
  /\ layoutReqs' = layoutReqs (+) One([image |-> croppedImage, theme |-> theme,
                                        filter |-> activeFilter])

\* The generate button: disabled={!theme || appState === ANALYZING}.
handleGenerateLayout ==
  /\ lastEvent' = Note("handleGenerateLayout")
  /\ TemplateTabShown
  /\ appState # "ANALYZING"
  /\ StartLayoutRequest
  /\ UNCHANGED <<rawImage, croppedImage, theme, stickers, activeFilter,
                 aspectRatio, layoutConfig, statusMessage, videoUrl, videoReqs,
                 pendingReads, cropLoaded, aistudio, now>>
  /\ Rendered

\* config.titleBackgroundColor || 'transparent'
titleBackgroundOf(config) ==
  IF "titleBackgroundColor" \in DOMAIN config /\ config.titleBackgroundColor # ""
    THEN config.titleBackgroundColor
    ELSE "transparent"

initYOf(position) ==
  CASE position = "top" -> 20
    [] position = "bottom" -> 80
    [] position = "split" -> 15
    [] OTHER -> 50

\* initSubYOf without the position hint.
initSubYOf_default(position) == 65

initSubYOf(position) ==
  CASE position = "top" -> 30
    [] position = "bottom" -> 90
    [] position = "split" -> 85
    [] OTHER -> 65

\* The object handleGenerateLayout passes to setLayoutConfig.
InitialLayout(config, filter) ==
  [isNull |-> FALSE,
   subtitle |-> config.subtitle,
   textColor |-> config.textColor,
   shadowColor |-> config.shadowColor,
   position |-> config.position,
   fontStyle |-> config.fontStyle,
   veoPrompt |-> config.veoPrompt,
   fontFamily |-> config.fontFamily,
   x |-> 50,
   y |-> initYOf(config.position),
   subtitleX |-> 50,
   subtitleY |-> initSubYOf(config.position),
   scale |-> 1,
   filter |-> filter,
   titleBackgroundColor |-> titleBackgroundOf(config),
   subtitleTextColor |-> IF config.textColor = "#FFFFFF" THEN "#FFFFFF"
                                                          ELSE config.shadowColor,
   subtitleBackgroundColor |-> IF config.textColor = "#FFFFFF" THEN config.shadowColor
                                                                ELSE "#FFFFFF"]

\* handleGenerateLayout after its await, when generateLayoutConfig returned.
layoutResolved(req, config) ==
  /\ layoutConfig' = InitialLayout(config, req.filter)
  /\ appState' = "PREVIEW"
  /\ UNCHANGED statusMessage

\* layoutRejected with the layout cleared as well.
layoutRejected_clearsLayout ==
  /\ statusMessage' = MsgLayoutFailed
  /\ appState' = "ERROR"
  /\ layoutConfig' = NullLayout

\* handleGenerateLayout's catch block.
layoutRejected ==
  /\ statusMessage' = MsgLayoutFailed
  /\ appState' = "ERROR"
  /\ UNCHANGED layoutConfig

\* What happened remotely during a generateLayoutConfig call (the event label).
keyDialogFails(studio, w) ==
  studio /\ (w.hasKey = "reject" \/ (w.hasKey = "no" /\ w.select = "reject"))

layoutEventOf(studio, w) ==
  IF keyDialogFails(studio, w) THEN "layout_keyDialogFailed"
  ELSE IF w.content.ok THEN "layout_answered"
  ELSE IF w.content.message \in AuthErrors THEN "layout_authError"
  ELSE "layout_genericError"

\* One request settles: generateLayoutConfig runs against the remote calls w.
layoutSettle(req, w) ==
  /\ lastEvent' = Note(layoutEventOf(aistudio, w))
  /\ BagIn(req, layoutReqs)
  /\ layoutReqs' = layoutReqs (-) One(req)
  /\ LET result == generateLayoutConfig(aistudio, w)
     IN IF result.kind = "return"
          THEN layoutResolved(req, result.value)
          ELSE layoutRejected
  /\ UNCHANGED <<rawImage, croppedImage, theme, stickers, activeFilter,
                 aspectRatio, videoUrl, activeTab, videoReqs, pendingReads,
                 cropLoaded, aistudio, now>>
  /\ Rendered

\* ------------------------------------------------------------------ reset
\* resetSession without setStickers([]).
resetSession_keepsStickers ==
  /\ appState' = "IDLE"
  /\ rawImage' = 0
  /\ croppedImage' = EmptyImage
  /\ theme' = ""
  /\ layoutConfig' = NullLayout
  /\ UNCHANGED stickers
  /\ videoUrl' = ""
  /\ activeFilter' = "none"

\* reset(): the state after construction, but for aspectRatio, statusMessage
\* and activeTab, which it leaves alone.
resetSession ==
  /\ appState' = "IDLE"
  /\ rawImage' = 0
  /\ croppedImage' = EmptyImage
  /\ theme' = ""
  /\ layoutConfig' = NullLayout
  /\ stickers' = <<>>
  /\ videoUrl' = ""
  /\ activeFilter' = "none"

\* The header logo / "new" button: onClick={reset}.
reset ==
  /\ lastEvent' = Note("reset")
  /\ ~CropperOpen
  /\ resetSession
  /\ UNCHANGED <<aspectRatio, statusMessage, activeTab, layoutReqs, videoReqs,
                 pendingReads, cropLoaded, aistudio, now>>
  /\ Rendered

\* The retry button of the error overlay:
\*   setAppState(UPLOADING); if (rawImage && theme) handleGenerateLayout(); else reset();
retry ==
  /\ appState = "ERROR"
  /\ lastEvent' = Note(IF rawImage # 0 /\ theme # "" THEN "retry_generate"
                                                     ELSE "retry_reset")
  /\ IF rawImage # 0 /\ theme # ""
       THEN /\ StartLayoutRequest
            /\ UNCHANGED <<rawImage, croppedImage, theme, stickers, activeFilter,
                           layoutConfig, videoUrl>>
       ELSE /\ resetSession
            /\ UNCHANGED <<activeTab, layoutReqs>>
  /\ UNCHANGED <<aspectRatio, statusMessage, videoReqs, pendingReads, cropLoaded,
                 aistudio, now>>
  /\ Rendered

\* -------------------------------------------------------- video generation
\* A generateVideo invocation in flight:
\*   pc       : the await it is suspended at
\*              "ensureKey" | "create" | "sleep" | "poll" | "fetch" | "reselect"
\*   attempts : the poll counter (saturating at MaxAttempts)
\*   svcDone  : the remote operation has finished (what a poll will report)
\*   aspectRatio : config.aspectRatio, as far as the specification observes
\*   targetAspectRatio : the aspectRatio sent with generateVideos, "none" before
NewVideoReq ==
  [pc |-> "ensureKey", attempts |-> 0, svcDone |-> FALSE, aspectRatio |-> "off",
   targetAspectRatio |-> "none"]

\* targetAspectRatio with the selected ratio passed through.
targetAspectRatio_selected(ratio) == ratio

\* generateVideo: let targetAspectRatio = '9:16';
\* if (config.aspectRatio === AspectRatio.LANDSCAPE) targetAspectRatio = '16:9'.
targetAspectRatio(ratio) == IF ratio = "16:9" THEN "16:9" ELSE "9:16"

\* handleGenerateVideo up to its await.
handleGenerateVideo ==
  /\ lastEvent' = Note("handleGenerateVideo")
  /\ appState = "PREVIEW"
  /\ CanvasMounted
  /\ layoutConfig # NullLayout
  /\ BagCardinality(videoReqs) < MaxVideoReqs
  /\ appState' = "GENERATING_VIDEO"
  /\ videoReqs' = videoReqs (+) One([NewVideoReq EXCEPT !.aspectRatio = Note(aspectRatio)])
  /\ UNCHANGED <<rawImage, croppedImage, theme, stickers, activeFilter,
                 aspectRatio, layoutConfig, statusMessage, videoUrl, activeTab,
                 layoutReqs, pendingReads, cropLoaded, aistudio, now>>
  /\ Rendered

videoFrame == <<rawImage, croppedImage, theme, stickers, activeFilter,
                aspectRatio, layoutConfig, activeTab, layoutReqs, pendingReads,
                cropLoaded, aistudio, now>>

\* generateVideo stays suspended, at the next await, after onStatusUpdate(status).
veoContinue(req, next, status) ==
  /\ videoReqs' = (videoReqs (-) One(req)) (+) One(next)
  /\ statusMessage' = status
  /\ UNCHANGED <<appState, videoUrl>>

\* generateVideo threw: the catch block of handleGenerateVideo.
videoRejected(req) ==
  /\ videoReqs' = videoReqs (-) One(req)
  /\ appState' = "ERROR"
  /\ statusMessage' = MsgVideoFailed
  /\ UNCHANGED videoUrl

\* generateVideo returned uri: handleGenerateVideo after its await.
videoResolved(req, uri) ==
  /\ videoReqs' = videoReqs (-) One(req)
  /\ videoUrl' = uri
  /\ appState' = "COMPLETED"
  /\ UNCHANGED statusMessage

\* veoCatch with the error swallowed and an empty URL returned.
veoCatch_swallows(req, msg, status) ==
  IF isEntityNotFound(msg) /\ aistudio
    THEN veoContinue(req, [req EXCEPT !.pc = "reselect"], status)
    ELSE videoResolved(req, "")

\* The catch block of generateVideo for an error with message msg; status is
\* the last onStatusUpdate of the step.
veoCatch(req, msg, status) ==
  IF isEntityNotFound(msg) /\ aistudio
    THEN veoContinue(req, [req EXCEPT !.pc = "reselect"], status)
    ELSE videoRejected(req)

\* await this.ensureApiKey(); onStatusUpdate(init); generateVideos(...) is called.
veoEnsureKey(req, w) ==
  /\ lastEvent' = Note(IF keyDialogFails(aistudio, w) THEN "veo_keyDialogFailed" ELSE "veo_keyReady")
  /\ BagIn(req, videoReqs)
  /\ req.pc = "ensureKey"
  /\ IF ensureApiKey(aistudio, w)
       THEN veoContinue(req, [req EXCEPT !.pc = "create",
                                         !.targetAspectRatio =
                                           targetAspectRatio(req.aspectRatio)],
                        MsgVeoInit)
       ELSE videoRejected(req)
  /\ UNCHANGED videoFrame
  /\ Rendered

\* The loop has ended: onStatusUpdate(downloaded), then the URI check.
veoAfterLoop(req, hasUri) ==
  IF hasUri
    THEN veoContinue(req, [req EXCEPT !.pc = "fetch"], MsgVeoDownloaded)
    ELSE veoCatch(req, MsgNoVideoUri, MsgVeoDownloaded)

\* What a settled operation request was (the event label).
operationEventOf(prefix, req, ok, hasUri) ==
  IF ~ok THEN prefix \o "_error"
  ELSE IF ~req.svcDone THEN prefix \o "_running"
  ELSE IF hasUri THEN prefix \o "_done"
  ELSE prefix \o "_doneWithoutUri"

\* The creation request settles: ok with an operation, or rejected with msg.
veoCreate(req, ok, msg, hasUri) ==
  /\ lastEvent' = Note(operationEventOf("create", req, ok, hasUri))
  /\ BagIn(req, videoReqs)
  /\ req.pc = "create"
  /\ IF ~ok THEN veoCatch(req, msg, statusMessage)
     ELSE IF req.svcDone THEN veoAfterLoop(req, hasUri)
     ELSE veoContinue(req, [req EXCEPT !.pc = "sleep"], MsgVeoGenerating)
  /\ UNCHANGED videoFrame
  /\ Rendered

\* The status of the loop body for a given value of attempts.
pollStatus(attempts, current) ==
  CASE attempts = 1 -> MsgVeoAnalyzing
    [] attempts = 3 -> MsgVeoFrames
    [] attempts = 6 -> MsgVeoAlmost
    [] OTHER -> current

\* veoTimer with a limit of six attempts, after which generateVideo throws.
veoTimer_withLimit(req) ==
  /\ lastEvent' = Note("veoTimer")
  /\ BagIn(req, videoReqs)
  /\ req.pc = "sleep"
  /\ IF req.attempts >= 6
       THEN videoRejected(req)
       ELSE veoContinue(req, [req EXCEPT !.pc = "poll", !.attempts = req.attempts + 1],
                        pollStatus(req.attempts + 1, statusMessage))
  /\ UNCHANGED videoFrame
  /\ Rendered

\* The 5 s timer fires: attempts++, status, getVideosOperation is called.
veoTimer(req) ==
  /\ lastEvent' = Note("veoTimer")
  /\ BagIn(req, videoReqs)
  /\ req.pc = "sleep"
  /\ LET n == IF req.attempts < MaxAttempts THEN req.attempts + 1 ELSE MaxAttempts
     IN veoContinue(req, [req EXCEPT !.pc = "poll", !.attempts = n],
                    pollStatus(n, statusMessage))
  /\ UNCHANGED videoFrame
  /\ Rendered

\* A poll settles: the operation it returns is done iff the service is done.
veoPoll(req, ok, msg, hasUri) ==
  /\ lastEvent' = Note(operationEventOf("poll", req, ok, hasUri))
  /\ BagIn(req, videoReqs)
  /\ req.pc = "poll"
  /\ IF ~ok THEN veoCatch(req, msg, statusMessage)
     ELSE IF req.svcDone THEN veoAfterLoop(req, hasUri)
     ELSE veoContinue(req, [req EXCEPT !.pc = "sleep"], statusMessage)
  /\ UNCHANGED videoFrame
  /\ Rendered

\* The download settles: "ok", "notOk" (response.ok false) or "reject".
veoFetch(req, outcome, msg) ==
  /\ lastEvent' = Note("download_" \o outcome)
  /\ BagIn(req, videoReqs)
  /\ req.pc = "fetch"
  /\ IF outcome = "ok" THEN videoResolved(req, "blob:video")
     ELSE IF outcome = "notOk" THEN veoCatch(req, MsgDownloadFailed, statusMessage)
     ELSE veoCatch(req, msg, statusMessage)
  /\ UNCHANGED videoFrame
  /\ Rendered

\* await aistudio.openSelectKey() in the catch block; either way an error is thrown.
veoReselect(req) ==
  /\ lastEvent' = Note("veoReselect")
  /\ BagIn(req, videoReqs)
  /\ req.pc = "reselect"
  /\ videoRejected(req)
  /\ UNCHANGED videoFrame
  /\ Rendered

\* The remote operation finishes (environment).
serviceFinish(req) ==
  /\ lastEvent' = Note("serviceFinish")
  /\ BagIn(req, videoReqs)
  /\ req.pc \in {"create", "sleep", "poll"}
  /\ ~req.svcDone
  /\ videoReqs' = (videoReqs (-) One(req)) (+) One([req EXCEPT !.svcDone = TRUE])
  /\ UNCHANGED <<appState, statusMessage, videoUrl>>
  /\ UNCHANGED videoFrame
  /\ Rendered

\* ---------------------------------------------------------------- stickers
\* Sticker scales are held in tenths: 10 is scale 1, one press is 1 (0.1).
SCALE_ONE == 10
SCALE_STEP == 1
SCALE_MIN == 2
SCALE_MAX == 50

\* handleAddSticker with the new sticker put first.
handleAddSticker_prepends(content, t) ==
  /\ lastEvent' = Note("handleAddSticker")
  /\ appState \in {"PREVIEW", "COMPLETED"}
  /\ Len(stickers) < MaxStickers
  /\ t >= now
  /\ now' = t
  /\ IF appState = "COMPLETED"
       THEN appState' = "PREVIEW" /\ videoUrl' = ""
       ELSE UNCHANGED <<appState, videoUrl>>
  /\ stickers' = <<[id |-> t, type |-> "emoji", content |-> content,
                    x |-> 50, y |-> 50, scale |-> SCALE_ONE, rotation |-> 0]>>
                  \o stickers
  /\ UNCHANGED <<rawImage, croppedImage, theme, activeFilter, aspectRatio,
                 layoutConfig, statusMessage, activeTab, layoutReqs, videoReqs,
                 pendingReads, cropLoaded, aistudio>>
  /\ Rendered

\* The sticker bar: shown in PREVIEW and COMPLETED.  t is Date.now().
handleAddSticker(content, t) ==
  /\ lastEvent' = Note("handleAddSticker")
  /\ appState \in {"PREVIEW", "COMPLETED"}
  /\ Len(stickers) < MaxStickers
  /\ t >= now
  /\ now' = t
  /\ IF appState = "COMPLETED"
       THEN appState' = "PREVIEW" /\ videoUrl' = ""
       ELSE UNCHANGED <<appState, videoUrl>>
  /\ stickers' = Append(stickers,
                        [id |-> t, type |-> "emoji", content |-> content,
                         x |-> 50, y |-> 50, scale |-> SCALE_ONE, rotation |-> 0])
  /\ UNCHANGED <<rawImage, croppedImage, theme, activeFilter, aspectRatio,
                 layoutConfig, statusMessage, activeTab, layoutReqs, videoReqs,
                 pendingReads, cropLoaded, aistudio>>
  /\ Rendered

stickerFrame == <<appState, rawImage, croppedImage, theme, activeFilter,
                  aspectRatio, layoutConfig, statusMessage, videoUrl, activeTab,
                  layoutReqs, videoReqs, pendingReads, cropLoaded, aistudio, now>>

\* prev.map(s => s.id === id ? { ...s, scale } : s)
handleUpdateSticker(list, id, scale) ==
  [k \in 1..Len(list) |->
     IF list[k].id = id THEN [list[k] EXCEPT !.scale = scale] ELSE list[k]]

\* prev.filter(s => s.id !== id)
handleRemoveSticker(list, id) ==
  SelectSeq(list, LAMBDA s : s.id # id)

\* Math.max(0.2, sticker.scale - 0.1) and Math.min(5, sticker.scale + 0.1)
decreasedScale(scale) == Max(SCALE_MIN, scale - SCALE_STEP)

\* increasedScale without the clamp.
increasedScale_unclamped(scale) == scale + SCALE_STEP

increasedScale(scale) == Min(SCALE_MAX, scale + SCALE_STEP)

\* The minus button of sticker i.
scaleDown(i) ==
  /\ lastEvent' = Note("scaleDown")
  /\ OverlayShown
  /\ i \in 1..Len(stickers)
  /\ stickers' = handleUpdateSticker(stickers, stickers[i].id,
                                     decreasedScale(stickers[i].scale))
  /\ UNCHANGED stickerFrame
  /\ Rendered

\* The plus button of sticker i.
scaleUp(i) ==
  /\ lastEvent' = Note("scaleUp")
  /\ OverlayShown
  /\ i \in 1..Len(stickers)
  /\ stickers' = handleUpdateSticker(stickers, stickers[i].id,
                                     increasedScale(stickers[i].scale))
  /\ UNCHANGED stickerFrame
  /\ Rendered

\* The delete handle of sticker i.
removeSticker(i) ==
  /\ lastEvent' = Note("removeSticker")
  /\ OverlayShown
  /\ i \in 1..Len(stickers)
  /\ stickers' = handleRemoveSticker(stickers, stickers[i].id)
  /\ UNCHANGED stickerFrame
  /\ Rendered

\* ------------------------------------------------------- dragging overlays
\* containerRef.current.getBoundingClientRect() of both overlays (they fill
\* the preview container), in pixels.
PreviewRect == [width |-> 400, height |-> 500]

\* (deltaPixels / rect.width) * 100; exact for the pointer positions used.
deltaPercent(deltaPixels, size) == (deltaPixels * 100) \div size

\* draggedTo with the result clamped to [0, 100].
draggedTo_clamped(init, client, start, size) ==
  Max(0, Min(100, init + deltaPercent(client - start, size)))

\* initX + deltaXPercent (and likewise for y).
draggedTo(init, client, start, size) == init + deltaPercent(client - start, size)

\* What the drag handlers leave alone.
dragFrame == <<appState, rawImage, croppedImage, theme, activeFilter, aspectRatio,
               statusMessage, videoUrl, activeTab, layoutReqs, videoReqs,
               pendingReads, cropLoaded, cropper, uploadError, canvas, aistudio,
               now>>

\* handleUpdateLayout spreading in the other order: { ...changes, ...layoutConfig }.
handleUpdateLayout_configWins(config, changes) ==
  IF config = NullLayout THEN config
  ELSE [k \in DOMAIN config \cup DOMAIN changes |->
          IF k \in DOMAIN config THEN config[k] ELSE changes[k]]

\* App.handleUpdateLayout: { ...layoutConfig, ...changes } unless layoutConfig is null.
handleUpdateLayout(config, changes) ==
  IF config = NullLayout THEN config
  ELSE [k \in DOMAIN config \cup DOMAIN changes |->
          IF k \in DOMAIN changes THEN changes[k] ELSE config[k]]

\* titlePointerDown that also moves the element under the pointer.
titlePointerDown_jumps(type, p) ==
  /\ lastEvent' = Note("titlePointerDown")
  /\ LayoutOverlayShown
  /\ titleDragRef' =
       [active |-> TRUE, type |-> type, startX |-> p[1], startY |-> p[2],
        initX |-> deltaPercent(p[1], PreviewRect.width),
        initY |-> deltaPercent(p[2], PreviewRect.height)]
  /\ layoutConfig' =
       IF type = "title"
         THEN handleUpdateLayout(layoutConfig,
                [x |-> deltaPercent(p[1], PreviewRect.width),
                 y |-> deltaPercent(p[2], PreviewRect.height)])
         ELSE handleUpdateLayout(layoutConfig,
                [subtitleX |-> deltaPercent(p[1], PreviewRect.width),
                 subtitleY |-> deltaPercent(p[2], PreviewRect.height)])
  /\ UNCHANGED <<stickers, stickerDragRef>>
  /\ UNCHANGED dragFrame

\* A control of the text tab (font, size slider, colour pickers, subtitle
\* input): onChange calls handleUpdateLayout with the one field it edits.
textTabUpdate(changes) ==
  /\ lastEvent' = Note("textTabUpdate")
  /\ PanelShown
  /\ activeTab = "text"
  /\ layoutConfig # NullLayout
  /\ \E k \in DOMAIN changes : layoutConfig[k] # changes[k]
  /\ layoutConfig' = handleUpdateLayout(layoutConfig, changes)
  /\ UNCHANGED <<stickers, titleDragRef, stickerDragRef>>
  /\ UNCHANGED dragFrame

\* LayoutEditorOverlay.handlePointerDown on the title or the subtitle; p is
\* <<clientX, clientY>>.
titlePointerDown(type, p) ==
  /\ lastEvent' = Note("titlePointerDown")
  /\ LayoutOverlayShown
  /\ titleDragRef' =
       [active |-> TRUE, type |-> type, startX |-> p[1], startY |-> p[2],
        initX |-> IF type = "title" THEN layoutConfig.x ELSE layoutConfig.subtitleX,
        initY |-> IF type = "title" THEN layoutConfig.y ELSE layoutConfig.subtitleY]
  /\ UNCHANGED <<layoutConfig, stickers, stickerDragRef>>
  /\ UNCHANGED dragFrame

\* LayoutEditorOverlay.handlePointerMove: returns unless a drag is active.
titlePointerMove(p) ==
  /\ lastEvent' = Note("titlePointerMove")
  /\ LayoutOverlayShown
  /\ titleDragRef.active
  /\ LET newX == draggedTo(titleDragRef.initX, p[1], titleDragRef.startX,
                           PreviewRect.width)
         newY == draggedTo(titleDragRef.initY, p[2], titleDragRef.startY,
                           PreviewRect.height)
     IN layoutConfig' =
          IF titleDragRef.type = "title"
            THEN handleUpdateLayout(layoutConfig, [x |-> newX, y |-> newY])
            ELSE handleUpdateLayout(layoutConfig,
                                    [subtitleX |-> newX, subtitleY |-> newY])
  /\ UNCHANGED <<stickers, titleDragRef, stickerDragRef>>
  /\ UNCHANGED dragFrame

\* LayoutEditorOverlay.handlePointerUp.
titlePointerUp ==
  /\ lastEvent' = Note("titlePointerUp")
  /\ LayoutOverlayShown
  /\ titleDragRef.active
  /\ titleDragRef' = NoDrag
  /\ UNCHANGED <<layoutConfig, stickers, stickerDragRef>>
  /\ UNCHANGED dragFrame

\* App.handleUpdateSticker(id, {x, y}): prev.map(s => s.id === id ? { ...s, x, y } : s)
handleUpdateStickerXY(list, id, newX, newY) ==
  [k \in 1..Len(list) |->
     IF list[k].id = id THEN [list[k] EXCEPT !.x = newX, !.y = newY] ELSE list[k]]

\* StickerOverlay.handlePointerDown on sticker i.
stickerPointerDown(i, p) ==
  /\ lastEvent' = Note("stickerPointerDown")
  /\ OverlayShown
  /\ i \in 1..Len(stickers)
  /\ stickerDragRef' =
       [active |-> TRUE, id |-> stickers[i].id, startX |-> p[1], startY |-> p[2],
        initX |-> stickers[i].x, initY |-> stickers[i].y]
  /\ UNCHANGED <<layoutConfig, stickers, titleDragRef>>
  /\ UNCHANGED dragFrame

\* StickerOverlay.handlePointerMove: returns unless a drag is active.
stickerPointerMove(p) ==
  /\ lastEvent' = Note("stickerPointerMove")
  /\ OverlayShown
  /\ stickerDragRef.active
  /\ stickers' = handleUpdateStickerXY(
                   stickers, stickerDragRef.id,
                   draggedTo(stickerDragRef.initX, p[1], stickerDragRef.startX,
                             PreviewRect.width),
                   draggedTo(stickerDragRef.initY, p[2], stickerDragRef.startY,
                             PreviewRect.height))
  /\ UNCHANGED <<layoutConfig, titleDragRef, stickerDragRef>>
  /\ UNCHANGED dragFrame

\* StickerOverlay.handlePointerUp, also the container's onPointerLeave.
\* stickerPointerUp with the drag state left in place.
stickerPointerUp_keepsDrag ==
  /\ lastEvent' = Note("stickerPointerUp")
  /\ OverlayShown
  /\ stickerDragRef.active
  /\ UNCHANGED <<layoutConfig, stickers, titleDragRef, stickerDragRef>>
  /\ UNCHANGED dragFrame

stickerPointerUp ==
  /\ lastEvent' = Note("stickerPointerUp")
  /\ OverlayShown
  /\ stickerDragRef.active
  /\ stickerDragRef' = NoDrag
  /\ UNCHANGED <<layoutConfig, stickers, titleDragRef>>
  /\ UNCHANGED dragFrame

\* ------------------------------------------------------------- compositor
\* A field of a config object; "" stands for undefined (falsy in a || b).
Field(config, name) == IF name \in DOMAIN config THEN config[name] ELSE ""

\* The layoutConfig prop of <CoverCanvas>: layoutConfig || { subtitle: "", ... }.
PlaceholderConfig ==
  [subtitle |-> "", textColor |-> "transparent", shadowColor |-> "transparent",
   position |-> "center", fontStyle |-> "bold", veoPrompt |-> ""]

canvasConfig == IF layoutConfig = NullLayout THEN PlaceholderConfig ELSE layoutConfig

\* subBgFinal with the pairing inverted.
subBgFinal_inverted(config) ==
  IF Field(config, "subtitleBackgroundColor") # ""
    THEN config.subtitleBackgroundColor
    ELSE IF config.textColor = "#FFFFFF" THEN "#FFFFFF" ELSE config.shadowColor

\* drawLayoutText: subtitleBackgroundColor || (textColor === '#FFFFFF' ? shadowColor : '#FFFFFF')
subBgFinal(config) ==
  IF Field(config, "subtitleBackgroundColor") # ""
    THEN config.subtitleBackgroundColor
    ELSE IF config.textColor = "#FFFFFF" THEN config.shadowColor ELSE "#FFFFFF"

\* drawLayoutText: subtitleTextColor || (textColor === '#FFFFFF' ? '#FFFFFF' : shadowColor)
subTextFinal(config) ==
  IF Field(config, "subtitleTextColor") # ""
    THEN config.subtitleTextColor
    ELSE IF config.textColor = "#FFFFFF" THEN "#FFFFFF" ELSE config.shadowColor

\* The props of <CoverCanvas>: imageBase64, title, layoutConfig, width, height,
\* stickers and filter = layoutConfig?.filter || activeFilter.
canvasProps ==
  [imageBase64 |-> croppedImage, title |-> theme, layoutConfig |-> canvasConfig,
   width |-> RATIO_CONFIG(aspectRatio).w, height |-> RATIO_CONFIG(aspectRatio).h,
   stickers |-> stickers,
   filter |-> IF Field(layoutConfig, "filter") # "" THEN layoutConfig.filter
              ELSE activeFilter]

\* ctx.filter for drawImage: if (filter && filter !== 'none') ctx.filter = filter.
imageFilter(ctxFilter, props) ==
  IF props.filter # "" /\ props.filter # "none" THEN props.filter ELSE ctxFilter

\* restored with the filter left as drawImage had it.
restored_keepsFilter(ctxFilter, props) == imageFilter(ctxFilter, props)

\* ctx.filter after ctx.restore(): what it was at ctx.save().
restored(ctxFilter, props) == ctxFilter

\* drawLayoutText: the title (background, stroke and fill), then the subtitle
\* (drop shadow, pill and text), each under the context's filter.
drawLayoutText(ctxFilter, config, title) ==
  <<[op |-> "title", text |-> title, x |-> Field(config, "x"), y |-> Field(config, "y"),
     filter |-> ctxFilter],
    [op |-> "subtitle", text |-> config.subtitle, x |-> Field(config, "subtitleX"),
     y |-> Field(config, "subtitleY"), background |-> subBgFinal(config),
     color |-> subTextFinal(config), filter |-> ctxFilter]>>

\* stickers.forEach: save, translate, scale, rotate, then fillText for a
\* sticker of type 'emoji' only, restore.
RECURSIVE drawStickers(_, _)
drawStickers(list, ctxFilter) ==
  IF list = <<>> THEN <<>>
  ELSE (IF Head(list).type = "emoji"
          THEN <<[op |-> "sticker", content |-> Head(list).content,
                  x |-> Head(list).x, y |-> Head(list).y, scale |-> Head(list).scale,
                  rotation |-> Head(list).rotation, filter |-> ctxFilter]>>
          ELSE <<>>)
       \o drawStickers(Tail(list), ctxFilter)

\* img.onload of the effect run with props: the draws it makes on a context
\* whose filter is ctxFilter.
onloadDraws(ctxFilter, props) ==
  <<[op |-> "image", image |-> props.imageBase64, width |-> props.width,
     height |-> props.height, filter |-> imageFilter(ctxFilter, props)],
    [op |-> "tone", filter |-> restored(ctxFilter, props)]>>
  \o drawLayoutText(restored(ctxFilter, props), props.layoutConfig, props.title)
  \o drawStickers(props.stickers, restored(ctxFilter, props))

\* What the actions of the compositor leave alone.
canvasFrame == <<appState, rawImage, croppedImage, theme, stickers, activeFilter,
                 aspectRatio, layoutConfig, statusMessage, videoUrl, activeTab,
                 layoutReqs, videoReqs, pendingReads, cropLoaded, cropper,
                 titleDragRef, stickerDragRef, uploadError, aistudio, now>>

\* The effect of <CoverCanvas> is due: a dependency differs from the last run.
EffectDue == CanvasMounted /\ canvas.deps # canvasProps

\* renderEffect clearing the canvas and loading the image even without a
\* drawing context.
renderEffect_ignoresContext(hasContext) ==
  /\ lastEvent' = Note("renderEffect")
  /\ EffectDue
  /\ BagCardinality(canvas.loading) < MaxLoads
  /\ canvas' = [canvas EXCEPT !.deps = canvasProps, !.frame = <<>>,
                              !.filter = "none",
                              !.loading = @ (+) One(canvasProps)]
  /\ UNCHANGED canvasFrame

\* The effect of <CoverCanvas>: returns when getContext('2d') gives null;
\* otherwise assigning canvas.width and canvas.height clears the bitmap and
\* resets the context, and an Image is created whose onload will draw.
renderEffect(hasContext) ==
  /\ lastEvent' = Note("renderEffect")
  /\ EffectDue
  /\ BagCardinality(canvas.loading) < MaxLoads
  /\ canvas' = IF ~hasContext THEN [canvas EXCEPT !.deps = canvasProps]
               ELSE [canvas EXCEPT !.deps = canvasProps, !.frame = <<>>,
                                   !.filter = "none",
                                   !.loading = @ (+) One(canvasProps)]
  /\ UNCHANGED canvasFrame

\* img.onload of an effect run: it draws with the props of that run.
imageOnload(props) ==
  /\ lastEvent' = Note("imageOnload")
  /\ CanvasMounted
  /\ BagIn(props, canvas.loading)
  /\ canvas' = [canvas EXCEPT !.loading = @ (-) One(props),
                              !.frame = @ \o onloadDraws(canvas.filter, props),
                              !.filter = restored(canvas.filter, props)]
  /\ UNCHANGED canvasFrame

\* getCanvasImage: toDataURL of the canvas, or '' without a canvas.
getCanvasImage(mounted, frame) ==
  IF mounted THEN [png |-> frame] ELSE [png |-> "empty string"]

\* getBlob: toBlob of the canvas, or null without a canvas.
getBlob(mounted, frame) ==
  IF mounted THEN [blob |-> frame] ELSE [blob |-> "null"]

\* A call of the handle's getCanvasImage; hasCanvas: canvasRef.current is set.
callGetCanvasImage(hasCanvas) ==
  /\ lastEvent' = Note("getCanvasImage")
  /\ hasCanvas = CanvasMounted
  /\ canvas' = [canvas EXCEPT !.exported = getCanvasImage(hasCanvas, canvas.frame)]
  /\ UNCHANGED canvasFrame

\* A call of the handle's getBlob; hasCanvas: canvasRef.current is set.
callGetBlob(hasCanvas) ==
  /\ lastEvent' = Note("getBlob")
  /\ hasCanvas = CanvasMounted
  /\ canvas' = [canvas EXCEPT !.exported = getBlob(hasCanvas, canvas.frame)]
  /\ UNCHANGED canvasFrame

\* App.handleDownloadImage: if (canvasRef.current) getCanvasImage().
handleDownloadImage ==
  /\ lastEvent' = Note("handleDownloadImage")
  /\ appState \in {"PREVIEW", "COMPLETED"}
  /\ CanvasMounted
  /\ canvas' = [canvas EXCEPT !.exported = getCanvasImage(CanvasMounted, canvas.frame)]
  /\ UNCHANGED canvasFrame

\* App.handleShare up to its await: if (canvasRef.current) getBlob().
handleShare ==
  /\ lastEvent' = Note("handleShare")
  /\ appState \in {"PREVIEW", "COMPLETED"}
  /\ CanvasMounted
  /\ canvas' = [canvas EXCEPT !.exported = getBlob(CanvasMounted, canvas.frame)]
  /\ UNCHANGED canvasFrame

\* ------------------------------------------------------------ specifications
VideoWorlds == [hasKey : {"yes", "no", "reject"}, select : {"ok", "reject"}]

\* --- Spec: the session state machine.  Every user action that moves the
\* session is present; the inputs are small: one other ratio, one sticker,
\* one video request with one polling round, and one remote answer of each
\* kind.  Filter changes, two video requests, the full polling loop and
\* sticker scaling are explored in LayoutSpec, VideoRaceSpec, VideoSpec and
\* StickerSpec.
SessionRatios == {"16:9"}
MaxSessionPolls == 1
MaxSessionStickers == 1
MaxSessionVideoReqs == 1

SessionWorlds ==
  { w \in LayoutWorlds :
      /\ w.select = "ok" /\ w.reselect = "ok"
      /\ w.hasKey \in {"yes", "reject"}
      /\ w.hasKey = "reject" => w.content = [ok |-> FALSE, message |-> NoMessage]
      /\ w.content.ok => w.content.json.position = "top"
      /\ ~w.content.ok =>
           w.content.message \in {NoMessage, <<"got", "status:", "403", "Forbidden">>} }

SessionErrors == { <<"Failed", "to", "fetch">>,
                   <<"404", "Requested", "entity", "was", "not", "found", "for", "key">> }

SessionVideoWorlds == { w \in VideoWorlds : w.select = "ok" /\ w.hasKey # "no" }

CropNext ==
  \/ onImageLoad
  \/ handleCropConfirm
  \/ onCancel
  \/ handleReCrop
  \/ \E ratio \in SessionRatios : selectAspectRatio(ratio)

SessionLayoutNext ==
  \/ handleGenerateLayout
  \/ \E req \in BagToSet(layoutReqs) : \E w \in SessionWorlds : layoutSettle(req, w)

SessionVideoNext ==
  \/ \E req \in BagToSet(videoReqs) : \E w \in SessionVideoWorlds : veoEnsureKey(req, w)
  \/ \E req \in BagToSet(videoReqs) : \E ok, hasUri \in BOOLEAN :
        \E msg \in SessionErrors : veoCreate(req, ok, msg, hasUri)
  \/ \E req \in BagToSet(videoReqs) :
        req.attempts < MaxSessionPolls /\ veoTimer(req)
  \/ \E req \in BagToSet(videoReqs) : \E ok, hasUri \in BOOLEAN :
        \E msg \in SessionErrors : veoPoll(req, ok, msg, hasUri)
  \/ \E req \in BagToSet(videoReqs) : \E outcome \in {"ok", "notOk", "reject"} :
        veoFetch(req, outcome, NoMessage)
  \/ \E req \in BagToSet(videoReqs) : veoReselect(req)
  \/ \E req \in BagToSet(videoReqs) : serviceFinish(req)

\* The image files of a session: PNG files within the size limit.
ImageFiles ==
  {[type |-> <<"i", "m", "a", "g", "e", "/", "p", "n", "g">>, size |-> MAX_FILE_SIZE,
    img |-> i] : i \in Images}

Next ==
  \/ \E file \in ImageFiles : handleFile(file)
  \/ \E img \in Images : handleImageSelected(img)
  \/ CropNext
  \/ \E t \in ThemeInputs : setTheme(t)
  \/ \E tab \in {"template", "text"} : setActiveTab(tab)
  \/ SessionLayoutNext
  \/ BagCardinality(videoReqs) < MaxSessionVideoReqs /\ handleGenerateVideo
  \/ SessionVideoNext
  \/ \E content \in STICKER_PRESETS :
        Len(stickers) < MaxSessionStickers /\ handleAddSticker(content, now)
  \/ \E i \in 1..MaxStickers : removeSticker(i)
  \/ reset
  \/ retry

Spec == Init /\ [][Next]_vars

\* --- Sessions that have come to a given point (each is a reachable state of
\* Spec but for the observation).
\* An image has been uploaded and cropped.
CroppedSession ==
  /\ appState = "UPLOADING"
  /\ rawImage = 1
  /\ croppedImage = handleSave([IdentityCrop EXCEPT !.imageDimensions = 1], 1, "3:4")
  /\ theme = ""
  /\ stickers = <<>>
  /\ activeFilter = "none"
  /\ aspectRatio = "3:4"
  /\ layoutConfig = NullLayout
  /\ statusMessage = ""
  /\ videoUrl = ""
  /\ activeTab = "template"
  /\ layoutReqs = EmptyBag
  /\ videoReqs = EmptyBag
  /\ pendingReads = EmptyBag
  /\ cropLoaded = FALSE
  /\ cropper = IdentityCrop
  /\ titleDragRef = NoDrag
  /\ stickerDragRef = NoDrag
  /\ uploadError = ""
  /\ canvas = NoCanvas
  /\ aistudio \in BOOLEAN
  /\ now = 1

\* A layout has been generated for the title "OOTD" (here the fallback one).
PreviewSession ==
  /\ appState = "PREVIEW"
  /\ rawImage = 1
  /\ croppedImage = handleSave([IdentityCrop EXCEPT !.imageDimensions = 1], 1, "3:4")
  /\ theme = "OOTD"
  /\ stickers = <<>>
  /\ activeFilter = "none"
  /\ aspectRatio = "3:4"
  /\ layoutConfig = InitialLayout(FallbackConfig, "none")
  /\ statusMessage = ""
  /\ videoUrl = ""
  /\ activeTab = "template"
  /\ layoutReqs = EmptyBag
  /\ videoReqs = EmptyBag
  /\ pendingReads = EmptyBag
  /\ cropLoaded = FALSE
  /\ cropper = IdentityCrop
  /\ titleDragRef = NoDrag
  /\ stickerDragRef = NoDrag
  /\ uploadError = ""
  /\ canvas = NoCanvas
  /\ aistudio \in BOOLEAN
  /\ now = 1

\* --- LayoutSpec: layout generation from a cropped image, against every
\* remote behaviour of LayoutWorlds, with title and filter edits, stickers,
\* retry and reset.
LayoutInit == CroppedSession /\ lastEvent = "init"

LayoutNext ==
  \/ \E t \in ThemeInputs : setTheme(t)
  \/ \E f \in FilterInputs : handleFilterChange(f)
  \/ \E tab \in {"template", "text"} : setActiveTab(tab)
  \/ handleGenerateLayout
  \/ \E req \in BagToSet(layoutReqs) : \E w \in LayoutWorlds : layoutSettle(req, w)
  \/ \E content \in STICKER_PRESETS :
        Len(stickers) < MaxSessionStickers /\ handleAddSticker(content, now)
  \/ \E i \in 1..MaxStickers : removeSticker(i)
  \/ reset
  \/ retry

LayoutSpec == LayoutInit /\ [][LayoutNext]_vars

\* --- VideoSpec: one video generation from a previewed layout, with the whole
\* polling loop and every remote behaviour.
VideoInit == PreviewSession /\ lastEvent = "init"

VeoNext ==
  \/ \E req \in BagToSet(videoReqs) : \E w \in VideoWorlds : veoEnsureKey(req, w)
  \/ \E req \in BagToSet(videoReqs) : \E ok, hasUri \in BOOLEAN :
        \E msg \in ServiceErrors : veoCreate(req, ok, msg, hasUri)
  \/ \E req \in BagToSet(videoReqs) : veoTimer(req)
  \/ \E req \in BagToSet(videoReqs) : \E ok, hasUri \in BOOLEAN :
        \E msg \in ServiceErrors : veoPoll(req, ok, msg, hasUri)
  \/ \E req \in BagToSet(videoReqs) : \E outcome \in {"ok", "notOk", "reject"} :
        \E msg \in GenericErrors : veoFetch(req, outcome, msg)
  \/ \E req \in BagToSet(videoReqs) : veoReselect(req)

VideoNext ==
  \/ handleGenerateVideo
  \/ VeoNext
  \/ \E req \in BagToSet(videoReqs) : serviceFinish(req)

VideoSpec == VideoInit /\ [][VideoNext]_vars

\* Every promise generateVideo awaits settles, and the timer fires.
VideoLiveSpec == VideoSpec /\ WF_vars(VeoNext)

\* --- VideoRaceSpec: video generation with the user going through the cropper
\* and regenerating the layout while a video request is pending.
VideoRaceInit == PreviewSession /\ lastEvent = "off"

VideoRaceNext ==
  \/ CropNext
  \/ SessionLayoutNext
  \/ handleGenerateVideo
  \/ SessionVideoNext

VideoRaceSpec == VideoRaceInit /\ [][VideoRaceNext]_vars

\* --- StickerSpec: the sticker bar and the sticker overlay on a previewed layout.
StickerInit == PreviewSession /\ lastEvent = "off"

StickerNext ==
  \/ \E content \in STICKER_PRESETS : \E t \in 1..MaxClock : handleAddSticker(content, t)
  \/ \E i \in 1..MaxStickers : removeSticker(i)
  \/ \E i \in 1..MaxStickers : scaleUp(i)
  \/ \E i \in 1..MaxStickers : scaleDown(i)

StickerSpec == StickerInit /\ [][StickerNext]_vars

\* --- SeedSpec: layout generation from a cropped image against every answer
\* the response schema allows for the fields handleGenerateLayout reads
\* (position hint, text colour, shadow colour, optional title background),
\* with filter changes before and after.
LayoutAnswers ==
  [subtitle : {"subtitle A"},
   textColor : {"#FFFFFF", "#ffffff", "#FF2442"},
   shadowColor : {"#000000", ""},
   position : {"top", "bottom", "center", "split"},
   fontStyle : {"modern"},
   titleBackgroundColor : {"", "#FFD700"},
   veoPrompt : {"Slow zoom"}]

SeedWorlds ==
  [hasKey : {"yes"}, select : {"ok"}, reselect : {"ok"},
   content : [ok : {TRUE}, json : LayoutAnswers]]

SeedInit == CroppedSession /\ lastEvent = "init"

SeedNext ==
  \/ \E t \in ThemeInputs : setTheme(t)
  \/ \E f \in FilterInputs : handleFilterChange(f)
  \/ handleGenerateLayout
  \/ \E req \in BagToSet(layoutReqs) : \E w \in SeedWorlds : layoutSettle(req, w)

SeedSpec == SeedInit /\ [][SeedNext]_vars

\* --- DragSpec: one pointer dragging the title, the subtitle and up to
\* MaxStickers stickers over a previewed layout; the positions are kept
\* within DragRange to bound the search.
ClientPoints == {<<0, 0>>, <<500, 500>>}

DragRange == (0 - 100)..200

DragInit == PreviewSession /\ lastEvent = "init"

NoPointerDown == ~titleDragRef.active /\ ~stickerDragRef.active

PositionsIn(range) ==
  /\ {layoutConfig.x, layoutConfig.y, layoutConfig.subtitleX, layoutConfig.subtitleY}
       \subseteq range
  /\ \A k \in 1..Len(stickers) : {stickers[k].x, stickers[k].y} \subseteq range

DragNext ==
  \/ \E content \in STICKER_PRESETS : \E t \in 1..MaxClock : handleAddSticker(content, t)
  \/ \E type \in {"title", "subtitle"} : \E p \in ClientPoints :
        NoPointerDown /\ titlePointerDown(type, p)
  \/ \E p \in ClientPoints : titlePointerMove(p) /\ PositionsIn(DragRange)'
  \/ titlePointerUp
  \/ \E i \in 1..MaxStickers : \E p \in ClientPoints :
        NoPointerDown /\ stickerPointerDown(i, p)
  \/ \E p \in ClientPoints : stickerPointerMove(p) /\ PositionsIn(DragRange)'
  \/ stickerPointerUp

DragSpec == DragInit /\ [][DragNext]_vars

\* --- CropSpec: the cropper on two uploads whose files are still being read
\* (an image can arrive while the cropper shows the other one), every target
\* ratio, the zoom slider and one pointer; the pan is kept within PanRange to
\* bound the search.
CropImages == {1, 2}

ZoomValues == {50, 100, 300}

CropPoints == {<<0, 0>>, <<300, 200>>}

PanRange == (0 - 300)..300

CropInit ==
  /\ appState = "IDLE"
  /\ rawImage = 0
  /\ croppedImage = EmptyImage
  /\ theme = ""
  /\ stickers = <<>>
  /\ activeFilter = "none"
  /\ aspectRatio = "3:4"
  /\ layoutConfig = NullLayout
  /\ statusMessage = ""
  /\ videoUrl = ""
  /\ activeTab = "template"
  /\ layoutReqs = EmptyBag
  /\ videoReqs = EmptyBag
  /\ pendingReads = SetToBag(CropImages)
  /\ cropLoaded = FALSE
  /\ cropper = IdentityCrop
  /\ titleDragRef = NoDrag
  /\ stickerDragRef = NoDrag
  /\ uploadError = ""
  /\ canvas = NoCanvas
  /\ aistudio = FALSE
  /\ now = 1
  /\ lastEvent = "init"

CropperNext ==
  \/ \E img \in CropImages : handleImageSelected(img)
  \/ onImageLoad
  \/ handleCropConfirm
  \/ onCancel
  \/ handleReCrop
  \/ \E ratio \in AspectRatios : selectAspectRatio(ratio)
  \/ \E value \in ZoomValues : setScale(value)
  \/ \E p \in CropPoints : ~cropper.isDragging /\ cropperPointerDown(p)
  \/ \E p \in CropPoints :
       /\ cropperPointerMove(p)
       /\ {cropper'.position[1], cropper'.position[2]} \subseteq PanRange
  \/ cropperPointerUp

CropSpec == CropInit /\ [][CropperNext]_vars

\* --- UploadSpec: files of every kind are selected in the uploader; each
\* FileReader that was started completes.
UploadImages == {1, 2}

UploadTypes ==
  {<<"i", "m", "a", "g", "e", "/", "p", "n", "g">>,
   <<"i", "m", "a", "g", "e", "/">>,
   <<"i", "m", "a", "g", "e">>,
   <<"I", "m", "a", "g", "e", "/", "p", "n", "g">>,
   <<"x", "i", "m", "a", "g", "e", "/">>,
   <<"t", "e", "x", "t", "/", "p", "l", "a", "i", "n">>,
   <<>>}

UploadSizes == {0, MAX_FILE_SIZE, MAX_FILE_SIZE + 1}

UploadFiles ==
  {[type |-> t, size |-> n, img |-> i] : t \in UploadTypes, n \in UploadSizes,
                                          i \in UploadImages}

UploadInit ==
  /\ appState = "IDLE"
  /\ rawImage = 0
  /\ croppedImage = EmptyImage
  /\ theme = ""
  /\ stickers = <<>>
  /\ activeFilter = "none"
  /\ aspectRatio = "3:4"
  /\ layoutConfig = NullLayout
  /\ statusMessage = ""
  /\ videoUrl = ""
  /\ activeTab = "template"
  /\ layoutReqs = EmptyBag
  /\ videoReqs = EmptyBag
  /\ pendingReads = EmptyBag
  /\ cropLoaded = FALSE
  /\ cropper = IdentityCrop
  /\ titleDragRef = NoDrag
  /\ stickerDragRef = NoDrag
  /\ uploadError = ""
  /\ canvas = NoCanvas
  /\ aistudio = FALSE
  /\ now = 1
  /\ lastEvent = "init"

UploadNext ==
  \/ \E file \in UploadFiles : handleFile(file)
  \/ \E img \in UploadImages : handleImageSelected(img)
  \/ onImageLoad
  \/ handleCropConfirm
  \/ onCancel
  \/ handleReCrop
  \/ \E ratio \in AspectRatios : selectAspectRatio(ratio)
  \/ reset

UploadSpec ==
  /\ UploadInit
  /\ [][UploadNext]_vars
  /\ \A img \in UploadImages : WF_vars(handleImageSelected(img))

\* --- WireSpec: video generation from a preview of each aspect ratio, with the
\* ratio changed and the crop redone while the request is pending.
WireInit ==
  /\ appState = "PREVIEW"
  /\ rawImage = 1
  /\ \E ratio \in AspectRatios :
       /\ aspectRatio = ratio
       /\ croppedImage = handleSave([IdentityCrop EXCEPT !.imageDimensions = 1], 1, ratio)
  /\ theme = "OOTD"
  /\ stickers = <<>>
  /\ activeFilter = "none"
  /\ layoutConfig = InitialLayout(FallbackConfig, "none")
  /\ statusMessage = ""
  /\ videoUrl = ""
  /\ activeTab = "template"
  /\ layoutReqs = EmptyBag
  /\ videoReqs = EmptyBag
  /\ pendingReads = EmptyBag
  /\ cropLoaded = FALSE
  /\ cropper = IdentityCrop
  /\ titleDragRef = NoDrag
  /\ stickerDragRef = NoDrag
  /\ uploadError = ""
  /\ canvas = NoCanvas
  /\ aistudio \in BOOLEAN
  /\ now = 1
  /\ lastEvent = "init"

WireNext ==
  \/ BagCardinality(videoReqs) < MaxSessionVideoReqs /\ handleGenerateVideo
  \/ VeoNext
  \/ \E req \in BagToSet(videoReqs) : serviceFinish(req)
  \/ \E ratio \in AspectRatios : selectAspectRatio(ratio)
  \/ onImageLoad
  \/ handleCropConfirm
  \/ onCancel

WireSpec == WireInit /\ [][WireNext]_vars

\* --- CanvasSpec: the compositor of a preview.  The effect of <CoverCanvas>
\* runs after the render that changed a dependency and before the next
\* event; image loads complete in any order; the filter and the stickers are
\* edited in between.
CanvasPresets == {"NEW", "SALE"}

CanvasInit == PreviewSession /\ aistudio = FALSE /\ lastEvent = "init"

CanvasNext ==
  \/ renderEffect(TRUE)
  \/ ~EffectDue /\ \E props \in BagToSet(canvas.loading) : imageOnload(props)
  \/ ~EffectDue /\ \E content \in CanvasPresets : \E t \in 1..MaxClock :
        handleAddSticker(content, t)
  \/ ~EffectDue /\ \E i \in 1..MaxStickers : removeSticker(i)
  \/ ~EffectDue /\ \E i \in 1..MaxStickers :
        scaleUp(i) /\ stickers'[i].scale <= SCALE_ONE + SCALE_STEP
  \/ ~EffectDue /\ \E f \in FilterInputs : handleFilterChange(f)

CanvasSpec == CanvasInit /\ [][CanvasNext]_vars

\* --- ExportSpec: the canvas of a preview is downloaded and shared while the
\* filter and the stickers are edited and image loads complete in any order.
ExportNext ==
  \/ renderEffect(TRUE)
  \/ ~EffectDue /\ \E props \in BagToSet(canvas.loading) : imageOnload(props)
  \/ ~EffectDue /\ handleDownloadImage
  \/ ~EffectDue /\ handleShare
  \/ ~EffectDue /\ \E content \in STICKER_PRESETS : handleAddSticker(content, now)
  \/ ~EffectDue /\ \E i \in 1..MaxStickers : removeSticker(i)
  \/ ~EffectDue /\ \E f \in FilterInputs : handleFilterChange(f)

ExportSpec == CanvasInit /\ [][ExportNext]_vars

\* --- PropsSpec: <CoverCanvas> is given sticker lists of both types of the
\* Sticker interface, 'emoji' and 'text'.
StickerTypes == {"emoji", "text"}

TypedStickers(id) ==
  {[id |-> id, type |-> type, content |-> "NEW", x |-> 50, y |-> 50,
    scale |-> SCALE_ONE, rotation |-> 0] : type \in StickerTypes}

TypedStickerLists ==
  {<<>>} \cup {<<s>> : s \in TypedStickers(1)}
         \cup {<<s, t>> : s \in TypedStickers(1), t \in TypedStickers(2)}

PropsInit ==
  /\ appState = "PREVIEW"
  /\ rawImage = 1
  /\ croppedImage = handleSave([IdentityCrop EXCEPT !.imageDimensions = 1], 1, "3:4")
  /\ theme = "OOTD"
  /\ stickers \in TypedStickerLists
  /\ activeFilter = "none"
  /\ aspectRatio = "3:4"
  /\ layoutConfig = InitialLayout(FallbackConfig, "none")
  /\ statusMessage = ""
  /\ videoUrl = ""
  /\ activeTab = "template"
  /\ layoutReqs = EmptyBag
  /\ videoReqs = EmptyBag
  /\ pendingReads = EmptyBag
  /\ cropLoaded = FALSE
  /\ cropper = IdentityCrop
  /\ titleDragRef = NoDrag
  /\ stickerDragRef = NoDrag
  /\ uploadError = ""
  /\ canvas = NoCanvas
  /\ aistudio = FALSE
  /\ now = MaxClock
  /\ lastEvent = "init"

PropsNext ==
  \/ renderEffect(TRUE)
  \/ ~EffectDue /\ \E props \in BagToSet(canvas.loading) : imageOnload(props)
  \/ ~EffectDue /\ \E i \in 1..MaxStickers : removeSticker(i)
  \/ ~EffectDue /\ \E i \in 1..MaxStickers :
        scaleUp(i) /\ stickers'[i].scale <= SCALE_ONE + SCALE_STEP
  \/ ~EffectDue /\ \E f \in FilterInputs : handleFilterChange(f)

PropsSpec == PropsInit /\ [][PropsNext]_vars

\* --- NoOpSpec: the operations that need a canvas or a drawing context are
\* run with and without one: exports with the canvas unmounted after a reset,
\* renders without a context, crop commits before the image has loaded.
NoOpNext ==
  \/ \E hasContext \in BOOLEAN : renderEffect(hasContext)
  \/ ~EffectDue /\ \E props \in BagToSet(canvas.loading) : imageOnload(props)
  \/ ~EffectDue /\ \E hasCanvas \in BOOLEAN : callGetCanvasImage(hasCanvas)
  \/ ~EffectDue /\ \E hasCanvas \in BOOLEAN : callGetBlob(hasCanvas)
  \/ ~EffectDue /\ \E f \in FilterInputs : handleFilterChange(f)
  \/ ~EffectDue /\ handleReCrop
  \/ ~EffectDue /\ \E hasContext \in BOOLEAN : handleSaveReturns(hasContext)
  \/ ~EffectDue /\ onImageLoad
  \/ ~EffectDue /\ handleCropConfirm
  \/ ~EffectDue /\ onCancel
  \/ ~EffectDue /\ reset

NoOpSpec == CanvasInit /\ [][NoOpNext]_vars

\* --- GateSpec: from a preview, every interaction the screen offers: drags,
\* sticker edits, video generation, the cropper, reset, retry and a new upload.
GateInit == PreviewSession /\ lastEvent = "init"

GateNext ==
  \/ \E file \in ImageFiles : handleFile(file)
  \/ \E img \in Images : handleImageSelected(img)
  \/ CropNext
  \/ BagCardinality(videoReqs) < MaxSessionVideoReqs /\ handleGenerateVideo
  \/ SessionVideoNext
  \/ \E content \in STICKER_PRESETS :
        Len(stickers) < MaxSessionStickers /\ handleAddSticker(content, now)
  \/ \E i \in 1..MaxStickers : removeSticker(i)
  \/ \E i \in 1..MaxStickers :
        scaleUp(i) /\ stickers'[i].scale <= SCALE_ONE + SCALE_STEP
  \/ \E i \in 1..MaxStickers :
        scaleDown(i) /\ stickers'[i].scale >= SCALE_ONE
  \/ \E type \in {"title", "subtitle"} : \E p \in ClientPoints :
        NoPointerDown /\ titlePointerDown(type, p)
  \/ \E p \in ClientPoints : titlePointerMove(p) /\ PositionsIn(DragRange)'
  \/ titlePointerUp
  \/ \E i \in 1..MaxStickers : \E p \in ClientPoints :
        NoPointerDown /\ stickerPointerDown(i, p)
  \/ \E p \in ClientPoints :
        /\ stickerPointerMove(p)
        /\ \A k \in 1..Len(stickers') : {stickers'[k].x, stickers'[k].y} \subseteq DragRange
  \/ stickerPointerUp
  \/ reset
  \/ retry

GateSpec == GateInit /\ [][GateNext]_vars

\* --- TouchSpec: two pointers on the sticker overlay.  The first pointer
\* went down on sticker 1 at <<0, 0>> and stays down; the second pointer goes
\* down on sticker 2, moves and goes up.  Every pointer's events reach the
\* same handlers, which keep one dragRef and use e.pointerId for the capture
\* only, so an event is told from another by its client point alone.
FirstPointer == {<<0, 0>>, <<400, 0>>}

SecondPointer == {<<0, 500>>, <<400, 500>>, <<200, 250>>}

TouchStickers ==
  <<[id |-> 1, type |-> "emoji", content |-> "NEW",
     x |-> 50, y |-> 50, scale |-> SCALE_ONE, rotation |-> 0],
    [id |-> MaxClock, type |-> "emoji", content |-> "NEW",
     x |-> 50, y |-> 50, scale |-> SCALE_ONE, rotation |-> 0]>>

TouchInit ==
  /\ appState = "PREVIEW"
  /\ rawImage = 1
  /\ croppedImage = handleSave([IdentityCrop EXCEPT !.imageDimensions = 1], 1, "3:4")
  /\ theme = "OOTD"
  /\ stickers = TouchStickers
  /\ activeFilter = "none"
  /\ aspectRatio = "3:4"
  /\ layoutConfig = InitialLayout(FallbackConfig, "none")
  /\ statusMessage = ""
  /\ videoUrl = ""
  /\ activeTab = "template"
  /\ layoutReqs = EmptyBag
  /\ videoReqs = EmptyBag
  /\ pendingReads = EmptyBag
  /\ cropLoaded = FALSE
  /\ cropper = IdentityCrop
  /\ titleDragRef = NoDrag
  /\ stickerDragRef = [active |-> TRUE, id |-> 1, startX |-> 0, startY |-> 0,
                       initX |-> 50, initY |-> 50]
  /\ uploadError = ""
  /\ canvas = NoCanvas
  /\ aistudio = FALSE
  /\ now = MaxClock
  /\ lastEvent = "init"

SecondPointerDown ==
  stickerDragRef.active /\ <<stickerDragRef.startX, stickerDragRef.startY>> \in SecondPointer

TouchNext ==
  \/ \E p \in SecondPointer : ~SecondPointerDown /\ stickerPointerDown(2, p)
  \/ \E p \in FirstPointer : stickerPointerMove(p) /\ PositionsIn(DragRange)'
  \/ \E p \in SecondPointer :
        SecondPointerDown /\ stickerPointerMove(p) /\ PositionsIn(DragRange)'
  \/ SecondPointerDown /\ stickerPointerUp

TouchSpec == TouchInit /\ [][TouchNext]_vars

\* --- EditSpec: a layout is generated, edited in the text tab, dragged and
\* re-filtered, regenerated and reset.
TextChanges == {[scale |-> 2], [subtitle |-> "subtitle B"]}

EditInit == CroppedSession /\ lastEvent = "init"

EditNext ==
  \/ \E t \in ThemeInputs : setTheme(t)
  \/ \E f \in FilterInputs : handleFilterChange(f)
  \/ \E tab \in {"template", "text"} : setActiveTab(tab)
  \/ handleGenerateLayout
  \/ \E req \in BagToSet(layoutReqs) : \E w \in SessionWorlds : layoutSettle(req, w)
  \/ \E changes \in TextChanges : textTabUpdate(changes)
  \/ \E type \in {"title", "subtitle"} : \E p \in ClientPoints :
        NoPointerDown /\ titlePointerDown(type, p)
  \/ \E p \in ClientPoints : titlePointerMove(p) /\ PositionsIn(DragRange)'
  \/ titlePointerUp
  \/ reset
  \/ retry

EditSpec == EditInit /\ [][EditNext]_vars

\* ------------------------------------------------------------------ claims
\* The state after construction, as far as reset() restores it.
InitialSession ==
  /\ appState = "IDLE"
  /\ rawImage = 0
  /\ croppedImage = EmptyImage
  /\ theme = ""
  /\ videoUrl = ""
  /\ layoutConfig = NullLayout
  /\ stickers = <<>>
  /\ activeFilter = "none"

\* C1 (Spec): layout generation is single-flight: in no reachable state are
\* two generateLayoutConfig requests in flight at once.
C1_LayoutSingleFlight == BagCardinality(layoutReqs) <= 1

\* C2 (VideoRaceSpec): video generation is single-flight: in no reachable
\* state are two generateVideo requests in flight at once.
C2_VideoSingleFlight == BagCardinality(videoReqs) <= 1

\* C3 (Spec): from every reachable state a sequence of user actions leads back
\* to the initial session: with the cropper open, cancel closes it; otherwise
\* the header's reset control is there and one click gives the initial session.
C3_ResetPath ==
  /\ CropperOpen => ENABLED (onCancel /\ ~CropperOpen')
  /\ ~CropperOpen => ENABLED (reset /\ InitialSession')

\* C3 witness: reset has brought a session that had failed, with the text tab
\* of a layout open, back to the initial session.
C3_ResetAfterError ==
  /\ InitialSession
  /\ statusMessage \in {MsgLayoutFailed, MsgVideoFailed}
  /\ activeTab = "text"

\* A step in which the request req of handleGenerateLayout ends in its catch block.
LayoutFailed(req) ==
  /\ layoutReqs' = layoutReqs (-) One(req)
  /\ \E w \in LayoutWorlds :
        /\ layoutSettle(req, w)
        /\ generateLayoutConfig(aistudio, w).kind = "throw"

\* C4 as stated (LayoutSpec): when a layout request fails, appState is ERROR
\* with a non-empty status message, layoutConfig and stickers are untouched and
\* croppedImage and activeFilter are what they were when the request started.
C4_AsBeforeRequest ==
  [][\A req \in BagToSet(layoutReqs) :
       LayoutFailed(req) =>
         /\ appState' = "ERROR"
         /\ statusMessage' # ""
         /\ layoutConfig' = layoutConfig
         /\ stickers' = stickers
         /\ croppedImage' = req.image
         /\ activeFilter' = req.filter]_vars

\* C4 amended (LayoutSpec): when a layout request fails, appState becomes ERROR
\* with a non-empty status message, and the failure changes none of
\* layoutConfig, stickers, croppedImage and activeFilter.
C4_FailureChangesNothing ==
  [][\A req \in BagToSet(layoutReqs) :
       LayoutFailed(req) =>
         /\ appState' = "ERROR"
         /\ statusMessage' # ""
         /\ UNCHANGED <<layoutConfig, stickers, croppedImage, activeFilter>>]_vars

\* C4 witness: a regeneration has failed and the prior layout is still there.
C4_FailedWithPriorLayout ==
  /\ lastEvent \in {"layout_authError", "layout_keyDialogFailed"}
  /\ appState = "ERROR"
  /\ statusMessage = MsgLayoutFailed
  /\ layoutConfig # NullLayout

\* A step in which the request req settles after the service call failed
\* with an error of the set errors.
ServiceCallFailed(req, errors) ==
  /\ layoutReqs' = layoutReqs (-) One(req)
  /\ \E w \in LayoutWorlds :
        /\ ensureApiKey(aistudio, w)
        /\ ~w.content.ok
        /\ w.content.message \in errors
        /\ layoutSettle(req, w)

\* C5 (LayoutSpec): when the service call fails with a generic error,
\* generateLayoutConfig returns the fixed fallback config, every required
\* field non-empty, and handleGenerateLayout reaches PREVIEW with it.
C5_GenericErrorFallsBack ==
  /\ \A studio \in BOOLEAN : \A w \in LayoutWorlds :
        (ensureApiKey(studio, w) /\ ~w.content.ok /\ w.content.message \in GenericErrors)
          => generateLayoutConfig(studio, w) = Returned(FallbackConfig)
  /\ [][\A req \in BagToSet(layoutReqs) :
          ServiceCallFailed(req, GenericErrors) =>
            /\ appState' = "PREVIEW"
            /\ layoutConfig'.subtitle = "BaoKuanFengMian"
            /\ layoutConfig'.textColor = "#FFFFFF"
            /\ layoutConfig'.shadowColor = "#000000"
            /\ layoutConfig'.position = "bottom"
            /\ layoutConfig'.fontStyle = "bold"
            /\ layoutConfig'.veoPrompt # ""
            /\ layoutConfig'.fontFamily # ""]_vars

\* C5 witness: a generic error has been answered with the fallback layout.
C5_FallbackPreviewed ==
  /\ lastEvent = "layout_genericError"
  /\ appState = "PREVIEW"
  /\ layoutConfig # NullLayout
  /\ layoutConfig.subtitle = "BaoKuanFengMian"

VideoFailureEvents ==
  {"create_error", "poll_error", "create_doneWithoutUri", "poll_doneWithoutUri",
   "download_notOk", "download_reject", "veoReselect"}

\* C7 (VideoSpec): every failure of video generation is thrown by generateVideo
\* (at once, or after the key selector its catch block awaits), never replaced
\* by a value: handleGenerateVideo sets ERROR with a non-empty status message
\* and videoUrl is unchanged.
C7_VideoFailureThrown ==
  [][lastEvent' \in VideoFailureEvents =>
       /\ videoUrl' = videoUrl
       /\ \/ /\ appState' = "ERROR"
             /\ statusMessage' # ""
             /\ videoReqs' = EmptyBag
          \/ /\ aistudio
             /\ lastEvent' # "veoReselect"
             /\ appState' = "GENERATING_VIDEO"
             /\ \E r \in BagToSet(videoReqs') : r.pc = "reselect"]_vars

\* C7 witness: a download that was not ok has ended in ERROR.
C7_DownloadFailureReported ==
  /\ lastEvent = "download_notOk"
  /\ appState = "ERROR"
  /\ statusMessage = MsgVideoFailed
  /\ videoUrl = ""

\* C8 (Spec): in ERROR, retry starts a layout generation when rawImage and
\* theme are non-empty and otherwise resets to the initial session; and ERROR
\* is left only by a user action, never by a request that completes.
C8_RetryAndErrorExit ==
  /\ [][retry =>
          IF rawImage # 0 /\ theme # ""
            THEN /\ appState' = "ANALYZING"
                 /\ BagCardinality(layoutReqs') = BagCardinality(layoutReqs) + 1
            ELSE InitialSession']_vars
  /\ [][(appState = "ERROR" /\ appState' # "ERROR") =>
          /\ BagCardinality(layoutReqs') >= BagCardinality(layoutReqs)
          /\ BagCardinality(videoReqs') >= BagCardinality(videoReqs)]_vars

\* The request is in the polling loop of generateVideo.
InLoop(req) == req.pc \in {"sleep", "poll"}

\* C9 (VideoLiveSpec): generateVideo leaves its polling loop only after a poll
\* that reports done or throws, whatever the number of attempts; and once the
\* service is done, or a poll has failed, generateVideo returns or throws.
C9_PollsUntilDoneOrError ==
  /\ [][\A req \in BagToSet(videoReqs) :
          (InLoop(req) /\ \A r \in BagToSet(videoReqs') : ~InLoop(r)) =>
             /\ req.pc = "poll"
             /\ req.svcDone \/ lastEvent' = "poll_error"]_vars
  /\ (\E req \in BagToSet(videoReqs) : InLoop(req) /\ req.svcDone)
        ~> (videoReqs = EmptyBag)
  /\ (lastEvent = "poll_error") ~> (videoReqs = EmptyBag)

\* C9 witness: the loop has been left by a poll that reported done, after more
\* attempts than any the code tests for.
C9_DoneAfterManyPolls ==
  /\ lastEvent = "poll_done"
  /\ \E req \in BagToSet(videoReqs) : req.pc = "fetch" /\ req.attempts = MaxAttempts

\* C10 (StickerSpec): every sticker's scale stays within [0.2, 5]; the plus
\* button sets the scale to min(5, scale + 0.1) and the minus button to
\* max(0.2, scale - 0.1).
C10_ScaleClamped ==
  /\ [](\A k \in 1..Len(stickers) :
          stickers[k].scale >= SCALE_MIN /\ stickers[k].scale <= SCALE_MAX)
  /\ [][\A i \in 1..Len(stickers) :
          /\ scaleUp(i) =>
               stickers'[i].scale = Min(SCALE_MAX, stickers[i].scale + SCALE_STEP)
          /\ scaleDown(i) =>
               stickers'[i].scale = Max(SCALE_MIN, stickers[i].scale - SCALE_STEP)]_vars

\* C10 witness: one sticker has been scaled up to 5 and another down to 0.2.
C10_BothClampsReached ==
  /\ Len(stickers) = 2
  /\ stickers[1].scale = SCALE_MAX
  /\ stickers[2].scale = SCALE_MIN

\* C14 (SeedSpec): when a generated layout config is received,
\* handleGenerateLayout sets x = 50, subtitleX = 50 and scale = 1, and derives
\* (y, subtitleY) from the position hint: top -> (20, 30), bottom -> (80, 90),
\* split -> (15, 85), center -> (50, 65).
C14_SeededPosition ==
  [][lastEvent' = "layout_answered" =>
       /\ layoutConfig'.x = 50
       /\ layoutConfig'.subtitleX = 50
       /\ layoutConfig'.scale = 1
       /\ <<layoutConfig'.position, layoutConfig'.y, layoutConfig'.subtitleY>>
            \in {<<"top", 20, 30>>, <<"bottom", 80, 90>>,
                 <<"split", 15, 85>>, <<"center", 50, 65>>}]_vars

\* A config with the hint 'bottom' has just been received.
C14_BottomHintReceived ==
  /\ lastEvent = "layout_answered"
  /\ appState = "PREVIEW"
  /\ layoutConfig.position = "bottom"
  /\ <<layoutConfig.x, layoutConfig.y>> = <<50, 80>>
  /\ <<layoutConfig.subtitleX, layoutConfig.subtitleY>> = <<50, 90>>

\* The seeding pairing of the subtitle colours for a text and a shadow colour.
SubtitlePairing(textColor, shadowColor) ==
  IF textColor = "#FFFFFF"
    THEN [text |-> "#FFFFFF", background |-> shadowColor]
    ELSE [text |-> shadowColor, background |-> "#FFFFFF"]

MovedStickers ==
  {k \in 1..Len(stickers) :
     <<stickers'[k].x, stickers'[k].y>> # <<stickers[k].x, stickers[k].y>>}

\* C11 (DragSpec): every pointer-move of a drag sets the dragged element to
\* init + (client - start) / containerSize * 100, so each element's position
\* is its original position plus the sum of the deltas of its own drags: a
\* pointer-move changes the position of the dragged sticker and of no other.
C11_DragMovesItsElementOnly ==
  [][/\ \A p \in ClientPoints : stickerPointerMove(p) =>
          \A k \in 1..Len(stickers) : stickers[k].id = stickerDragRef.id =>
             /\ stickers'[k].x = stickerDragRef.initX
                  + deltaPercent(p[1] - stickerDragRef.startX, PreviewRect.width)
             /\ stickers'[k].y = stickerDragRef.initY
                  + deltaPercent(p[2] - stickerDragRef.startY, PreviewRect.height)
     /\ Len(stickers') = Len(stickers) => Cardinality(MovedStickers) <= 1]_vars

\* The percentages that lie on the canvas.
PercentRange == 0..100

InsideImage(c) ==
  /\ QLe(QInt(0), c.sx)
  /\ QLe(QInt(0), c.sy)
  /\ QLe(QAdd(c.sx, c.sw), QInt(NaturalSize(c.img).width))
  /\ QLe(QAdd(c.sy, c.sh), QInt(NaturalSize(c.img).height))

\* C16 (CropSpec): in every cropper state the transform covers the crop
\* window: the scale is at least the cover scale 1 and the window maps into
\* the image, so no committed crop contains area outside the source image.
C16_TransformCoversWindow ==
  /\ CropperOpen => cropper.scale >= 100
  /\ CropperOpen /\ cropLoaded /\ cropper.imageDimensions = rawImage =>
       InsideImage(handleSave(cropper, rawImage, aspectRatio))
  /\ croppedImage # EmptyImage => InsideImage(croppedImage)

C18_LongEdge1080 ==
  croppedImage # EmptyImage => Max(croppedImage.width, croppedImage.height) = 1080

\* C18, amended (CropSpec): for each of the four ratios the crop output canvas
\* is 1080 pixels wide and 1080 / ratio high (1440, 1080, 1920, 607), so its
\* longer edge is 1080 only for 1:1 and 16:9.
C18_Width1080 ==
  croppedImage # EmptyImage =>
    /\ croppedImage.width = 1080
    /\ <<croppedImage.ratio, croppedImage.height>>
         \in {<<"3:4", 1440>>, <<"1:1", 1080>>, <<"9:16", 1920>>, <<"16:9", 607>>}

\* A 9:16 crop has been committed: its longer edge is the height, 1920.
C18_PortraitCropCommitted ==
  /\ croppedImage # EmptyImage
  /\ croppedImage.ratio = "9:16"
  /\ croppedImage.width = 1080 /\ croppedImage.height = 1920

\* C19 (CropSpec): for each of the four ratios the integer dimensions of the
\* crop output canvas have exactly the ratio's proportion, which is also the
\* proportion of the compositor canvas of that ratio.
C19_ExactProportion ==
  croppedImage # EmptyImage =>
    /\ croppedImage.width * RATIO_MULTIPLIERS(croppedImage.ratio)[2]
         = croppedImage.height * RATIO_MULTIPLIERS(croppedImage.ratio)[1]
    /\ croppedImage.width * RATIO_CONFIG(croppedImage.ratio).h
         = croppedImage.height * RATIO_CONFIG(croppedImage.ratio).w

\* C20 (CropSpec): the crop transform is the identity whenever the cropper is
\* entered and whenever the source image or the target ratio changes while it
\* is open; otherwise the pan changes only by a pointer-move of a drag and the
\* scale only by the zoom slider.
C20_TransformResets ==
  [][/\ CropperOpen' /\ (~CropperOpen \/ rawImage' # rawImage
                                      \/ aspectRatio' # aspectRatio) =>
          cropper'.position = <<0, 0>> /\ cropper'.scale = 100
     /\ CropperOpen /\ CropperOpen' /\ rawImage' = rawImage
          /\ aspectRatio' = aspectRatio =>
          /\ cropper'.position # cropper.position =>
               lastEvent' = "cropperPointerMove" /\ cropper.isDragging
          /\ cropper'.scale # cropper.scale => lastEvent' = "setScale"]_vars

\* The other image has arrived during a second drag of a panned image: the
\* pan is (0,0) again while the drag still holds its old origin.
C20_ResetByNewImage ==
  /\ lastEvent = "handleImageSelected"
  /\ CropperOpen
  /\ cropper.isDragging /\ cropper.dragStart = <<0 - 300, 0 - 200>>
  /\ cropper.position = <<0, 0>> /\ cropper.scale = 100

\* C21 (CropSpec): the cropper's pan accumulates without bound or clamping:
\* pointer-down records client - pan and leaves the pan alone, every
\* pointer-move of the drag sets the pan to client - dragStart, that is the
\* pan at pointer-down plus (client - pointer-down position), pointer-up
\* leaves it alone, and outside a drag no pointer event changes the pan.
C21_PanAccumulates ==
  [][/\ \A p \in CropPoints : cropperPointerDown(p) =>
          /\ cropper'.position = cropper.position
          /\ <<cropper'.position[1] + cropper'.dragStart[1],
               cropper'.position[2] + cropper'.dragStart[2]>> = p
     /\ \A p \in CropPoints : cropperPointerMove(p) =>
          cropper'.position = <<p[1] - cropper.dragStart[1],
                                p[2] - cropper.dragStart[2]>>
     /\ lastEvent' = "cropperPointerUp" => cropper'.position = cropper.position
     /\ ~cropper.isDragging /\ cropper'.position # cropper.position =>
          cropper'.position = <<0, 0>>
            /\ lastEvent' \notin {"cropperPointerDown", "cropperPointerMove",
                                  "cropperPointerUp"}]_vars

\* A complete drag by (-300, -200) has ended with the image loaded: the pan
\* is its delta, a full window width to the left.
C21_PanAfterDrag ==
  /\ lastEvent = "cropperPointerUp"
  /\ CropperOpen /\ cropLoaded /\ ~cropper.isDragging
  /\ cropper.position = <<0 - 300, 0 - 200>>

\* The files C22 expects to be accepted: a type that starts with 'image/' and
\* a size of at most 10485760 bytes.
AcceptableFiles ==
  {f \in UploadFiles :
     /\ f.type \in {<<"i", "m", "a", "g", "e", "/", "p", "n", "g">>,
                    <<"i", "m", "a", "g", "e", "/">>}
     /\ f.size \in {0, 10485760}}

\* C22 (UploadSpec): a selected file is accepted if and only if its mime type
\* starts with 'image/' and its size is at most 10 * 1024 * 1024 bytes: an
\* accepted file clears the error and starts a read, which ends in
\* onImageSelected taking the app to CROPPING with that image; a rejected file
\* sets an inline error, starts no read and keeps appState IDLE; and
\* onImageSelected is called only for a file whose read was started.
C22_AcceptedIffImageWithinLimit ==
  /\ [][\A f \in UploadFiles : handleFile(f) =>
          /\ appState' = "IDLE" /\ rawImage' = rawImage
          /\ IF f \in AcceptableFiles
               THEN uploadError' = "" /\ pendingReads' = pendingReads (+) One(f.img)
               ELSE uploadError' \in {ERROR_TYPE, ERROR_SIZE}
                      /\ pendingReads' = pendingReads]_vars
  /\ [][lastEvent' = "handleImageSelected" =>
          /\ BagIn(rawImage', pendingReads)
          /\ pendingReads' = pendingReads (-) One(rawImage')
          /\ appState' = "CROPPING"]_vars
  /\ \A i \in UploadImages :
        BagIn(i, pendingReads) ~>
          (lastEvent = "handleImageSelected" /\ rawImage = i /\ appState = "CROPPING")

\* After a reset, image 2 was accepted and is being read when another file is
\* rejected for its size.
C22_RejectedWhileReading ==
  /\ lastEvent = "handleFile"
  /\ appState = "IDLE"
  /\ uploadError = ERROR_SIZE
  /\ BagIn(2, pendingReads)

\* C23 (WireSpec): the aspect ratio sent to the animation service is '16:9'
\* when the ratio selected at the time of the request was 16:9 and '9:16' for
\* each of 9:16, 1:1 and 3:4; nothing else is ever sent.
C23_WireRatioIsOneOfTwo ==
  \A req \in BagToSet(videoReqs) :
    IF req.pc = "ensureKey" THEN req.targetAspectRatio = "none"
    ELSE \/ req.aspectRatio = "16:9" /\ req.targetAspectRatio = "16:9"
         \/ req.aspectRatio \in {"9:16", "1:1", "3:4"} /\ req.targetAspectRatio = "9:16"

\* A request made with the square ratio selected has sent '9:16', and the
\* selection has since been changed to 16:9.
C23_SquareSentAsPortrait ==
  /\ aspectRatio = "16:9"
  /\ \E req \in BagToSet(videoReqs) :
       req.aspectRatio = "1:1" /\ req.targetAspectRatio = "9:16"

\* C24 (StickerSpec): in every reachable state the stickers of the list have
\* pairwise distinct ids.
C24_DistinctStickerIds ==
  \A i, j \in 1..Len(stickers) : stickers[i].id = stickers[j].id => i = j

\* The elements of list at the indices of K, in list order.
RECURSIVE Restriction(_, _, _)
Restriction(list, K, k) ==
  IF k > Len(list) THEN <<>>
  ELSE (IF k \in K THEN <<list[k]>> ELSE <<>>) \o Restriction(list, K, k + 1)

\* The draws of stickers among the draws a step appends to the canvas.
NewStickerDraws ==
  SelectSeq(SubSeq(canvas'.frame, Len(canvas.frame) + 1, Len(canvas'.frame)),
            LAMBDA d : d.op = "sticker")

\* C25 (CanvasSpec): add-sticker appends one sticker at the end of the list
\* with x = 50, y = 50, scale = 1 and rotation = 0 and leaves the others as
\* they were; an update changes no sticker's place in the list and a removal
\* keeps the remaining stickers in their order; and a render draws the
\* stickers of its list one after the other in list order, after the image,
\* so that a later sticker is painted over an earlier one.
C25_StickersInListOrder ==
  [][/\ lastEvent' = "handleAddSticker" =>
          /\ Len(stickers') = Len(stickers) + 1
          /\ SubSeq(stickers', 1, Len(stickers)) = stickers
          /\ stickers'[Len(stickers')].x = 50
          /\ stickers'[Len(stickers')].y = 50
          /\ stickers'[Len(stickers')].scale = 10
          /\ stickers'[Len(stickers')].rotation = 0
     /\ lastEvent' = "scaleUp" =>
          /\ Len(stickers') = Len(stickers)
          /\ \A k \in 1..Len(stickers) :
               [stickers'[k] EXCEPT !.scale = 0] = [stickers[k] EXCEPT !.scale = 0]
     /\ lastEvent' = "removeSticker" =>
          \E K \in SUBSET (1..Len(stickers)) :
             K # 1..Len(stickers) /\ stickers' = Restriction(stickers, K, 1)
     /\ \A props \in BagToSet(canvas.loading) : imageOnload(props) =>
          /\ Len(NewStickerDraws) = Len(props.stickers)
          /\ \A k \in 1..Len(props.stickers) :
               /\ NewStickerDraws[k].content = props.stickers[k].content
               /\ NewStickerDraws[k].x = props.stickers[k].x
               /\ NewStickerDraws[k].scale = props.stickers[k].scale
          /\ canvas'.frame[Len(canvas.frame) + 1].op = "image"]_vars

\* The canvas has just been drawn with the sticker NEW and, added after it and
\* painted last, the sticker SALE.
C25_LaterStickerPaintedLast ==
  /\ lastEvent = "imageOnload"
  /\ Len(stickers) = 2
  /\ stickers[1].content = "NEW" /\ stickers[2].content = "SALE"
  /\ Len(canvas.frame) >= 2
  /\ canvas.frame[Len(canvas.frame)].op = "sticker"
  /\ canvas.frame[Len(canvas.frame)].content = "SALE"
  /\ canvas.frame[Len(canvas.frame) - 1].op = "sticker"
  /\ canvas.frame[Len(canvas.frame) - 1].content = "NEW"

\* What an export returned: the draws on the canvas it encoded.
ExportedFrame ==
  IF "png" \in DOMAIN canvas.exported THEN canvas.exported.png
  ELSE canvas.exported.blob

\* C26 (ExportSpec): an export (getCanvasImage or getBlob) returns the complete
\* frame of the current model state: the draws of one render of the current
\* image, filter, layoutConfig, title and sticker list, never a cleared canvas
\* and never the frame of older props.
C26_ExportIsCurrentFrame ==
  [][lastEvent' \in {"handleDownloadImage", "handleShare"} =>
       ExportedFrame' = onloadDraws("none", canvasProps)]_vars

\* The positions of the title and of the subtitle.
TextPositions ==
  <<layoutConfig.x, layoutConfig.y, layoutConfig.subtitleX, layoutConfig.subtitleY>>

\* C27 (DragSpec): a pointer-up (for the stickers also a pointer-leave, which
\* runs the same handler) that ends a drag clears the drag state, and from
\* then on no position changes until the next pointer-down on an element:
\* positions change only in a pointer-move made while the drag state of their
\* overlay is set, and only a pointer-down sets it.
C27_DragStateCleared ==
  [][/\ lastEvent' = "titlePointerUp" => titleDragRef' = NoDrag
     /\ lastEvent' = "stickerPointerUp" => stickerDragRef' = NoDrag
     /\ TextPositions' # TextPositions =>
          titleDragRef.active /\ lastEvent' = "titlePointerMove"
     /\ MovedStickers # {} =>
          stickerDragRef.active /\ lastEvent' = "stickerPointerMove"
     /\ titleDragRef' # NoDrag /\ titleDragRef' # titleDragRef =>
          lastEvent' = "titlePointerDown"
     /\ stickerDragRef' # NoDrag /\ stickerDragRef' # stickerDragRef =>
          lastEvent' = "stickerPointerDown"]_vars

\* A drag that moved a sticker has just ended: no drag state is left.
C27_StickerDragEnded ==
  /\ lastEvent = "stickerPointerUp"
  /\ stickerDragRef = NoDrag /\ titleDragRef = NoDrag
  /\ \E k \in 1..Len(stickers) : stickers[k].x # 50

\* The draws a step appends to the canvas.
NewDraws == SubSeq(canvas'.frame, Len(canvas.frame) + 1, Len(canvas'.frame))

\* The names of the layers of a sequence of draws.
LayersOf(draws) == [k \in 1..Len(draws) |-> draws[k].op]

\* C28 (CanvasSpec): each render draws, in this order, the base image, the
\* tone overlay, the title, the subtitle, then the stickers; the filter is in
\* effect for the base-image draw only, and the context's filter is the
\* default for every later draw of the render and when the render ends.
C28_LayerOrderAndFilterScope ==
  [][\A props \in BagToSet(canvas.loading) : imageOnload(props) =>
       /\ LayersOf(NewDraws) =
            <<"image", "tone", "title", "subtitle">>
            \o [k \in 1..Len(props.stickers) |-> "sticker"]
       /\ NewDraws[1].filter = props.filter
       /\ \A k \in 2..Len(NewDraws) : NewDraws[k].filter = "none"
       /\ canvas'.filter = "none"]_vars

\* A render with the grayscale filter and a sticker has completed.
C28_FilteredRenderWithSticker ==
  /\ lastEvent = "imageOnload"
  /\ Len(canvas.frame) >= 5
  /\ canvas.frame[Len(canvas.frame) - 4].op = "image"
  /\ canvas.frame[Len(canvas.frame) - 4].filter = "grayscale(1) contrast(1.2)"
  /\ canvas.frame[Len(canvas.frame)].op = "sticker"
  /\ canvas.frame[Len(canvas.frame)].filter = "none"

C31_GatedByAppState ==
  [][/\ lastEvent' \in {"titlePointerDown", "titlePointerMove", "titlePointerUp",
                        "stickerPointerDown", "stickerPointerMove",
                        "stickerPointerUp", "removeSticker", "scaleUp", "scaleDown"}
          => appState = "PREVIEW"
     /\ lastEvent' = "handleAddSticker" => appState \in {"PREVIEW", "COMPLETED"}
     /\ lastEvent' = "handleGenerateVideo" =>
          appState = "PREVIEW" /\ layoutConfig # NullLayout
     /\ lastEvent' = "handleFile" => appState = "IDLE"]_vars

\* A sticker has been added over a completed video, which takes the app back
\* to the preview.
C31_StickerAddedWhenCompleted ==
  /\ lastEvent = "handleAddSticker"
  /\ appState = "PREVIEW"
  /\ videoUrl = ""
  /\ statusMessage = MsgVeoDownloaded

\* C32: with more than one pointer, a pointer-move changes only the position
\* of the element on which that same pointer went down: the moves of the
\* first pointer, which went down on sticker 1, reposition sticker 1 only.
C32_PointerMovesOwnElement ==
  [][\A p \in FirstPointer : stickerPointerMove(p) => MovedStickers \subseteq {1}]_vars

\* The step keeps every layoutConfig field outside keys.
OnlyChanged(keys) ==
  /\ layoutConfig # NullLayout
  /\ layoutConfig' # NullLayout
  /\ DOMAIN layoutConfig' = DOMAIN layoutConfig
  /\ \A k \in DOMAIN layoutConfig \ keys : layoutConfig'[k] = layoutConfig[k]

\* The events that settle a layout request: the service answers, or fails and
\* handleGenerateLayout receives the fallback config or an exception.
LayoutEvents ==
  {"layout_answered", "layout_genericError", "layout_authError", "layout_keyDialogFailed"}

\* C33: handleUpdateLayout (text-tab controls, title and subtitle drags) and
\* handleFilterChange set the fields they are given (and activeFilter for
\* the latter) and leave every other layoutConfig field unchanged; with a
\* null layoutConfig handleUpdateLayout changes nothing; layoutConfig is
\* replaced as a whole only by a completed layout generation and becomes null
\* only by reset.
C33_UpdatesOnlyGivenFields ==
  [][/\ \A changes \in TextChanges :
          /\ textTabUpdate(changes) =>
               /\ OnlyChanged(DOMAIN changes)
               /\ \A k \in DOMAIN changes : layoutConfig'[k] = changes[k]
          /\ handleUpdateLayout(NullLayout, changes) = NullLayout
     /\ lastEvent' = "titlePointerMove" =>
          IF titleDragRef.type = "title" THEN OnlyChanged({"x", "y"})
                                         ELSE OnlyChanged({"subtitleX", "subtitleY"})
     /\ \A f \in FilterInputs :
          handleFilterChange(f) =>
            /\ activeFilter' = f
            /\ IF layoutConfig = NullLayout
                 THEN layoutConfig' = NullLayout
                 ELSE OnlyChanged({"filter"}) /\ layoutConfig'.filter = f
     /\ layoutConfig' # layoutConfig =>
          lastEvent' \in {"textTabUpdate", "titlePointerMove", "handleFilterChange",
                          "reset", "retry_reset"} \cup LayoutEvents
     /\ lastEvent' \in LayoutEvents => layoutConfig' = layoutConfig \/ appState' = "PREVIEW"
     /\ layoutConfig # NullLayout /\ layoutConfig' = NullLayout =>
          lastEvent' \in {"reset", "retry_reset"}]_vars

\* The size slider has been moved on a generated layout whose filter was
\* changed before.
C33_ScaleSetOnFilteredLayout ==
  /\ lastEvent = "textTabUpdate"
  /\ layoutConfig # NullLayout
  /\ layoutConfig.scale = 2
  /\ layoutConfig.filter # "none"
  /\ layoutConfig.position = "top"

\* The session as reset leaves it.
SessionEmpty ==
  /\ appState = "IDLE"
  /\ layoutConfig = NullLayout
  /\ croppedImage = EmptyImage
  /\ stickers = <<>>
  /\ videoUrl = ""

\* C34: after reset, appState stays IDLE and layoutConfig, croppedImage,
\* stickers and videoUrl stay empty until a new image is selected: the
\* completion or failure of a request in flight does not change them.
C34_ResetSessionStaysEmpty ==
  [][SessionEmpty /\ lastEvent' # "handleImageSelected" => SessionEmpty']_vars

\* A layout request, or a video request, settles in this step: the
\* continuation of handleGenerateLayout, or of handleGenerateVideo, runs.
LayoutSettles == BagCardinality(layoutReqs') < BagCardinality(layoutReqs)

VideoSettles == BagCardinality(videoReqs') < BagCardinality(videoReqs)

\* C35: a layout completion makes appState PREVIEW only while appState is
\* still ANALYZING and a video completion makes it COMPLETED only while it is
\* still GENERATING_VIDEO: a result that arrives after the user moved to
\* another state does not change appState.
C35_StaleResultKeepsAppState ==
  [][/\ LayoutSettles /\ appState # "ANALYZING" => appState' = appState
     /\ VideoSettles /\ appState # "GENERATING_VIDEO" => appState' = appState]_vars

\* C36: whenever layoutConfig is non-null its filter equals activeFilter,
\* also when the filter is changed while a layout request is in flight.
C36_LayoutFilterIsActiveFilter ==
  layoutConfig # NullLayout => layoutConfig.filter = activeFilter

\* C37: a layout request is issued only with a non-empty croppedImage, and
\* croppedImage is non-empty whenever appState is PREVIEW, GENERATING_VIDEO or
\* COMPLETED (in particular after an upload whose crop was cancelled).
C37_CroppedImagePresent ==
  /\ \A req \in BagToSet(layoutReqs) : req.image # EmptyImage
  /\ appState \in {"PREVIEW", "GENERATING_VIDEO", "COMPLETED"} => croppedImage # EmptyImage

\* C38: in PREVIEW the aspect ratio the current croppedImage was cropped to
\* is the selected aspectRatio, which sizes the compositor canvas.
C38_CropMatchesAspectRatio ==
  appState = "PREVIEW" /\ croppedImage # EmptyImage => croppedImage.ratio = aspectRatio

\* C39: whenever the download and share buttons are offered (appState
\* PREVIEW or COMPLETED) the compositor canvas is mounted, so that
\* handleDownloadImage has a canvas handle to export a still image from.
C39_CanvasAvailableForDownload ==
  appState \in {"PREVIEW", "COMPLETED"} => CanvasMounted

\* What the canvas shows: the draws from the last full-canvas image draw on
\* (drawImage covers the whole canvas with the opaque cropped image).
VisibleFrame ==
  LET images == {k \in 1..Len(canvas.frame) : canvas.frame[k].op = "image"}
  IN IF images = {} THEN canvas.frame
     ELSE SubSeq(canvas.frame, CHOOSE k \in images : \A j \in images : j <= k,
                 Len(canvas.frame))

\* C40 (CanvasSpec): once every pending image load of the compositor has
\* fired, the canvas shows the render of the latest props, whatever the order
\* in which the loads completed.
C40_LatestRenderShown ==
  CanvasMounted /\ ~EffectDue /\ canvas.loading = EmptyBag =>
    VisibleFrame = onloadDraws("none", canvasProps)

====
